---------------------------- MODULE Spec2Model ----------------------------
(***************************************************************************)
(* Model of the Feedbucket MCP server: the API client (api.ts: transport,  *)
(* filter, pagination, summarizer, query orchestrator) and the tool        *)
(* handler of the server (index.ts).                                       *)
(*                                                                         *)
(* Encoding of JavaScript values                                           *)
(*   string      a tuple of character codes ("/a" is <<47, 97>>)           *)
(*   null        the reserved tuple Null (no string holds a negative code) *)
(*   enum value  a TLA+ string ("video")                                   *)
(*   object      a record; an optional property that is undefined is       *)
(*               missing from the record's DOMAIN; {} is <<>>              *)
(*   exception   a completion record [threw |-> TRUE, error |-> e]         *)
(***************************************************************************)
EXTENDS Integers, Sequences, FiniteSets, TLC

VARIABLES
    upstream,   \* the feedback collection held by the remote service
    pc,         \* position of the invocation: "idle", "await", "done"
    call,       \* the invocation in progress: [name, args], or NoCall
    pending,    \* the HTTP request in flight, or NoRequest
    held,       \* values the handler holds across an await
    sent,       \* the HTTP requests the invocation has issued, in order
    settled,    \* what those requests settled to, in order
    reply,      \* what the invocation returned, or NoReply
    client      \* what a client paging through feedback_list has so far, or NoClient

vars == <<upstream, pc, call, pending, held, sent, settled, reply, client>>

---------------------------------------------------------------------------
(* Bounds of the model *)

\* longest feedback sequence handed to the pure functions
MaxRecs == 2
\* number of distinct record templates the pure functions are fed
NumTemplates == 6
\* size of the large project (more records than the 50-item ceiling)
BigCount == 60
\* length of the longest feedback text
MaxTextLen == 250

---------------------------------------------------------------------------
(* Strings *)

Null == <<-1>>

Has(obj, field) == field \in DOMAIN obj

\* JavaScript truthiness of a string | null value
TruthyStr(s) == s # Null /\ Len(s) > 0

\* JavaScript truthiness of a number
TruthyNum(n) == n # 0

ToLowerChar(c) == IF c \in 65..90 THEN c + 32 ELSE c

\* String.prototype.toLowerCase
ToLowerCase(s) == [i \in 1..Len(s) |-> ToLowerChar(s[i])]

\* String.prototype.includes
Includes(s, sub) ==
    \E k \in 0..(Len(s) - Len(sub)) : SubSeq(s, k + 1, k + Len(sub)) = sub

\* the < operator on two strings: code-unit lexicographic order
StrLess(a, b) ==
    \E k \in 1..(Len(b)) :
        /\ k <= Len(a) + 1
        /\ \A j \in 1..(k - 1) : a[j] = b[j]
        /\ (k = Len(a) + 1 \/ a[k] < b[k])

Min(a, b) == IF a < b THEN a ELSE b
Max(a, b) == IF a > b THEN a ELSE b

\* Array.prototype.slice / String.prototype.slice with both arguments given
Slice(s, start, end) ==
    LET len == Len(s)
        from == IF start < 0 THEN Max(len + start, 0) ELSE Min(start, len)
        to == IF end < 0 THEN Max(len + end, 0) ELSE Min(end, len)
    IN  SubSeq(s, from + 1, to)

\* slice(start) / slice(start, undefined)
SliceFrom(s, start) == Slice(s, start, Len(s))

---------------------------------------------------------------------------
(* Feedback records (types.ts) *)

FeedbackTypes == <<"screenshot", "video", "text">>

\* "2025-01-0dT00:00:00Z"
Day(d) == <<50, 48, 50, 53, 45, 48, 49, 45, 48, 48 + d,
            84, 48, 48, 58, 48, 48, 58, 48, 48, 90>>

\* "/a", "/ab", "/A"
Pages == << <<47, 97>>, <<47, 97, 98>>, <<47, 65>> >>

\* "Al", "BOB", "al b"
Names == << <<65, 108>>, <<66, 79, 66>>, <<97, 108, 32, 98>> >>

\* a text of n characters, no two neighbours equal
TextOfLen(n) == [i \in 1..n |-> 97 + (i % 26)]

SessionOf(i) ==
    [page |-> Pages[(i % 3) + 1],
     device |-> <<80, 67>>,
     system |-> <<79, 83>>,
     browser |-> <<70, 70>>,
     selector |-> [path |-> <<35, 120>>,
                   offset |-> [x |-> i, y |-> 2 * i],
                   pathWithClass |-> <<35, 120, 46, 99>>,
                   scrollableSelector |-> Null],
     userAgent |-> <<85, 65>>,
     screenWidth |-> 1920,
     screenHeight |-> 1080,
     viewportWidth |-> 1280,
     viewportHeight |-> 720,
     widgetVersion |-> <<49, 46, 48>>,
     devDataOverview |-> [console |-> [log |-> i, info |-> 0, warn |-> 0, error |-> 1]],
     devicePixelRatio |-> 2,
     \* a property the service sends and types.ts does not list
     cookies |-> <<99, 61, i>>]

CommentOf(k) ==
    [id |-> k, body |-> <<104, 105>>, attachments |-> <<>>,
     created_at |-> Day(9), name |-> <<65, 108>>]

\* the i-th record of a project; odd records are unresolved
FeedbackOf(i) ==
    [id |-> i,
     type |-> FeedbackTypes[(i % 3) + 1],
     reporter |-> [id |-> 100 + i, name |-> Names[((i \div 2) % 3) + 1],
                   email |-> <<97, 64, 98>>],
     resource |-> Null,
     title |-> <<84, 48 + (i % 10)>>,
     text |-> IF i % 5 = 0 THEN Null
              ELSE IF i % 7 = 0 THEN TextOfLen(MaxTextLen)
              ELSE TextOfLen(i % 4),
     tags |-> <<>>,
     attachments |-> IF i % 4 = 0 THEN << <<117>> >> ELSE <<>>,
     resolved_at |-> IF i % 2 = 0 THEN Day(9) ELSE Null,
     session_data |-> SessionOf(i),
     created_at |-> Day((i % 5) + 1),
     comments |-> [k \in 1..(i % 3) |-> CommentOf(k)]]

\* the project with records 1..n
Project(n) == [i \in 1..n |-> FeedbackOf(i)]

\* what GET /projects/{id} answers while the collection is fb
ProjectResponse(fb) ==
    [message |-> <<111, 107>>,
     project |-> [id |-> 1, name |-> <<68, 101, 109, 111>>,
                  url |-> <<104, 116, 116, 112>>, feedback |-> fb]]

---------------------------------------------------------------------------
(* Text of the program's messages *)

\* "Unknown error"
UnknownErrorText == <<85, 110, 107, 110, 111, 119, 110, 32, 101, 114, 114,
    111, 114>>

\* "API request failed: "
ApiFailedPrefix == <<65, 80, 73, 32, 114, 101, 113, 117, 101, 115, 116, 32,
    102, 97, 105, 108, 101, 100, 58, 32>>

\* ". Response: "
ResponseInfix == <<46, 32, 82, 101, 115, 112, 111, 110, 115, 101, 58, 32>>

\* "Network request failed: "
NetworkFailedPrefix == <<78, 101, 116, 119, 111, 114, 107, 32, 114, 101,
    113, 117, 101, 115, 116, 32, 102, 97, 105, 108, 101, 100, 58, 32>>

\* "API Error ("
ApiErrorPrefix == <<65, 80, 73, 32, 69, 114, 114, 111, 114, 32, 40>>

\* "): "
ApiErrorInfix == <<41, 58, 32>>

\* "feedback_id parameter is required"
FeedbackIdRequired == <<102, 101, 101, 100, 98, 97, 99, 107, 95, 105, 100,
    32, 112, 97, 114, 97, 109, 101, 116, 101, 114, 32, 105, 115, 32, 114,
    101, 113, 117, 105, 114, 101, 100>>

\* "comment parameter is required"
CommentRequired == <<99, 111, 109, 109, 101, 110, 116, 32, 112, 97, 114, 97,
    109, 101, 116, 101, 114, 32, 105, 115, 32, 114, 101, 113, 117, 105, 114,
    101, 100>>

\* "Unknown tool: "
UnknownToolPrefix == <<85, 110, 107, 110, 111, 119, 110, 32, 116, 111, 111,
    108, 58, 32>>

\* "Feedback with ID "
NotFoundPrefix == <<70, 101, 101, 100, 98, 97, 99, 107, 32, 119, 105, 116,
    104, 32, 73, 68, 32>>

\* " not found"
NotFoundSuffix == <<32, 110, 111, 116, 32, 102, 111, 117, 110, 100>>

\* "Claude AI Assistant"
DefaultReporterName == <<67, 108, 97, 117, 100, 101, 32, 65, 73, 32, 65,
    115, 115, 105, 115, 116, 97, 110, 116>>

\* "claude@anthropic.com"
DefaultReporterEmail == <<99, 108, 97, 117, 100, 101, 64, 97, 110, 116, 104,
    114, 111, 112, 105, 99, 46, 99, 111, 109>>

\* "connected"
Connected == <<99, 111, 110, 110, 101, 99, 116, 101, 100>>

\* "error: "
ErrorPrefix == <<101, 114, 114, 111, 114, 58, 32>>

\* "error: unknown"
ErrorUnknown == <<101, 114, 114, 111, 114, 58, 32, 117, 110, 107, 110, 111,
    119, 110>>

\* "Unknown error occurred"
UnknownErrorOccurred == <<85, 110, 107, 110, 111, 119, 110, 32, 101, 114,
    114, 111, 114, 32, 111, 99, 99, 117, 114, 114, 101, 100>>

\* "..."
Ellipsis == <<46, 46, 46>>

\* Number -> string conversion of a template literal, for integers
RECURSIVE DigitsOf(_)
DigitsOf(n) == IF n < 10 THEN <<48 + n>> ELSE DigitsOf(n \div 10) \o <<48 + (n % 10)>>

NumToStr(n) == IF n < 0 THEN <<45>> \o DigitsOf(-n) ELSE DigitsOf(n)

---------------------------------------------------------------------------
(* Completions: a call returns a value or throws *)

Return(v) == [threw |-> FALSE, value |-> v]
Throw(e) == [threw |-> TRUE, error |-> e]

\* new FeedbucketApiError(message, status, response?)
FeedbucketApiError(message, status) ==
    [name |-> "FeedbucketApiError", message |-> message, status |-> status]

FeedbucketApiErrorWithResponse(message, status, response) ==
    [name |-> "FeedbucketApiError", message |-> message, status |-> status,
     response |-> response]

\* new Error(message)
Error(message) == [name |-> "Error", message |-> message]

\* the errors the runtime raises: fetch rejects with a TypeError, response.json()
\* with a SyntaxError, a property read of undefined with a TypeError
RuntimeError(name, message) == [name |-> name, message |-> message]

\* error instanceof FeedbucketApiError
IsApiError(e) == e.name = "FeedbucketApiError"

\* error instanceof Error
IsError(e) == e.name \in {"Error", "TypeError", "SyntaxError", "FeedbucketApiError"}

---------------------------------------------------------------------------
(* api.ts: summarizer *)

\* text longer than this is cut in a summary
SummaryTextLimit == 200

\* item.text ? (item.text.length > 200 ? `${item.text.slice(0, 200)}...` : item.text) : null
SummaryText(text) ==
    IF TruthyStr(text)
    THEN IF Len(text) > SummaryTextLimit
         THEN Slice(text, 0, SummaryTextLimit) \o Ellipsis
         ELSE text
    ELSE Null

SummaryOf(item) ==
    [id |-> item.id,
     type |-> item.type,
     title |-> item.title,
     text |-> SummaryText(item.text),
     reporter_name |-> item.reporter.name,
     page |-> item.session_data.page,
     created_at |-> item.created_at,
     resolved_at |-> item.resolved_at,
     comment_count |-> Len(item.comments),
     has_attachments |-> Len(item.attachments) > 0]

\* lines 82-95
summarizeFeedback(feedback) == [i \in 1..Len(feedback) |-> SummaryOf(feedback[i])]

\* OptimizedSession that hands the session data on as it came
OptimizedSessionWhole(sd) == sd

\* the allow-listed copy of session_data
OptimizedSession(sd) ==
    [page |-> sd.page,
     device |-> sd.device,
     system |-> sd.system,
     browser |-> sd.browser,
     selector |-> [path |-> sd.selector.path,
                   pathWithClass |-> sd.selector.pathWithClass,
                   offset |-> sd.selector.offset,
                   scrollableSelector |-> sd.selector.scrollableSelector],
     userAgent |-> sd.userAgent,
     screenWidth |-> sd.screenWidth,
     screenHeight |-> sd.screenHeight,
     viewportWidth |-> sd.viewportWidth,
     viewportHeight |-> sd.viewportHeight,
     widgetVersion |-> sd.widgetVersion,
     devDataOverview |-> sd.devDataOverview,
     devicePixelRatio |-> sd.devicePixelRatio]

optimizeFeedbackForAI(feedback) ==
    [i \in 1..Len(feedback) |->
        [feedback[i] EXCEPT !.session_data = OptimizedSession(feedback[i].session_data)]]

---------------------------------------------------------------------------
(* api.ts: filter engine *)

\* filter.x && ... : the property is set and is not the empty string
TruthyField(obj, field) == Has(obj, field) /\ TruthyStr(obj[field])

\* the same for a property holding an enum value
TruthyEnum(obj, field) == Has(obj, field) /\ obj[field] # ""

\* KeepItem with the page compared without regard to case
KeepItemPageIgnoringCase(item, filter) ==
    IF Has(filter, "resolved") /\ filter.resolved # (item.resolved_at # Null)
        THEN FALSE
    ELSE IF TruthyField(filter, "page")
            /\ ~Includes(ToLowerCase(item.session_data.page), ToLowerCase(filter.page))
        THEN FALSE
    ELSE IF TruthyField(filter, "reporter")
            /\ ~Includes(ToLowerCase(item.reporter.name), ToLowerCase(filter.reporter))
        THEN FALSE
    ELSE IF TruthyEnum(filter, "type") /\ item.type # filter.type
        THEN FALSE
    ELSE IF TruthyField(filter, "created_after")
            /\ StrLess(item.created_at, filter.created_after)
        THEN FALSE
    ELSE IF TruthyField(filter, "created_before")
            /\ StrLess(filter.created_before, item.created_at)
        THEN FALSE
    ELSE TRUE

\* the callback of feedback.filter: FALSE at the first criterion that rejects
KeepItem(item, filter) ==
    IF Has(filter, "resolved") /\ filter.resolved # (item.resolved_at # Null)
        THEN FALSE
    ELSE IF TruthyField(filter, "page")
            /\ ~Includes(item.session_data.page, filter.page)
        THEN FALSE
    ELSE IF TruthyField(filter, "reporter")
            /\ ~Includes(ToLowerCase(item.reporter.name), ToLowerCase(filter.reporter))
        THEN FALSE
    ELSE IF TruthyEnum(filter, "type") /\ item.type # filter.type
        THEN FALSE
    ELSE IF TruthyField(filter, "created_after")
            /\ StrLess(item.created_at, filter.created_after)
        THEN FALSE
    ELSE IF TruthyField(filter, "created_before")
            /\ StrLess(filter.created_before, item.created_at)
        THEN FALSE
    ELSE TRUE

filterFeedback(feedback, filter) ==
    SelectSeq(feedback, LAMBDA item : KeepItem(item, filter))

---------------------------------------------------------------------------
(* api.ts: query orchestrator, the part after the fetch *)

\* options.offset || options.limit
WantsPage(options) ==
    \/ Has(options, "offset") /\ TruthyNum(options.offset)
    \/ Has(options, "limit") /\ TruthyNum(options.limit)

\* Paginate with the limit taken as the end index
PaginateEndIsLimit(feedback, options) ==
    LET start == IF Has(options, "offset") /\ TruthyNum(options.offset)
                 THEN options.offset ELSE 0
    IN  IF Has(options, "limit") /\ TruthyNum(options.limit)
        THEN Slice(feedback, start, options.limit)
        ELSE SliceFrom(feedback, start)

\* lines 162-164: filteredFeedback.slice(start, end)
Paginate(feedback, options) ==
    LET start == IF Has(options, "offset") /\ TruthyNum(options.offset)
                 THEN options.offset ELSE 0
    IN  IF Has(options, "limit") /\ TruthyNum(options.limit)
        THEN Slice(feedback, start, start + options.limit)
        ELSE SliceFrom(feedback, start)

\* lines 161-165: the pagination step
PageStage(filtered, options) ==
    IF WantsPage(options) THEN Paginate(filtered, options) ELSE filtered

\* FilterStage with the filter looking at the requested window only
FilterStageWindowed(all, options) ==
    IF Has(options, "filter")
    THEN filterFeedback(PageStage(all, options), options.filter)
    ELSE all

\* lines 153-157: the filter step
FilterStage(all, options) ==
    IF Has(options, "filter") THEN filterFeedback(all, options.filter) ELSE all

\* options.summary !== false
SummaryMode(options) == ~(Has(options, "summary") /\ options.summary = FALSE)

\* CountsOf with the count taken after the filter reported as the original one
CountsOfFilteredAsOriginal(all, filtered, page) ==
    [original_count |-> Len(filtered),
     filtered_count |-> Len(filtered),
     returned_count |-> Len(page)]

\* lines 151, 159, 167: originalCount, filteredCount, returnedCount
CountsOf(all, filtered, page) ==
    [original_count |-> Len(all),
     filtered_count |-> Len(filtered),
     returned_count |-> Len(page)]

\* ProcessProject with total_count taken before the filter
ProcessProjectTotalOriginal(response, options) ==
    LET all == response.project.feedback
        filtered == FilterStage(all, options)
        page == PageStage(filtered, options)
        counts == CountsOf(all, filtered, page)
        processed == IF SummaryMode(options)
                     THEN summarizeFeedback(page)
                     ELSE optimizeFeedbackForAI(page)
    IN  [project |-> response.project,
         feedback |-> processed,
         total_count |-> counts.original_count,
         data_optimization |->
            [original_count |-> counts.original_count,
             filtered_count |-> counts.filtered_count,
             returned_count |-> counts.returned_count,
             truncated_session_data |-> TRUE,
             summarized |-> SummaryMode(options)]]

\* ProcessProject with the projection made of the filtered records, not the page
ProcessProjectWholeFiltered(response, options) ==
    LET all == response.project.feedback
        filtered == FilterStage(all, options)
        page == PageStage(filtered, options)
        counts == CountsOf(all, filtered, page)
        processed == IF SummaryMode(options)
                     THEN summarizeFeedback(filtered)
                     ELSE optimizeFeedbackForAI(filtered)
    IN  [project |-> response.project,
         feedback |-> processed,
         total_count |-> counts.filtered_count,
         data_optimization |->
            [original_count |-> counts.original_count,
             filtered_count |-> counts.filtered_count,
             returned_count |-> counts.returned_count,
             truncated_session_data |-> TRUE,
             summarized |-> SummaryMode(options)]]

\* lines 151-184, given the parsed body of the project fetch
ProcessProject(response, options) ==
    LET all == response.project.feedback
        filtered == FilterStage(all, options)
        page == PageStage(filtered, options)
        counts == CountsOf(all, filtered, page)
        processed == IF SummaryMode(options)
                     THEN summarizeFeedback(page)
                     ELSE optimizeFeedbackForAI(page)
    IN  [project |-> response.project,
         feedback |-> processed,
         total_count |-> counts.filtered_count,
         data_optimization |->
            [original_count |-> counts.original_count,
             filtered_count |-> counts.filtered_count,
             returned_count |-> counts.returned_count,
             truncated_session_data |-> TRUE,
             summarized |-> SummaryMode(options)]]

---------------------------------------------------------------------------
(* api.ts: transport *)

\* "server error", "Internal Server Error", "Not Found", "fetch failed"
ServerErrorBody == <<115, 101, 114, 118, 101, 114, 32, 101, 114, 114, 111,
    114>>
InternalServerError == <<73, 110, 116, 101, 114, 110, 97, 108, 32, 83, 101,
    114, 118, 101, 114, 32, 69, 114, 114, 111, 114>>
NotFoundText == <<78, 111, 116, 32, 70, 111, 117, 110, 100>>
FetchFailed == <<102, 101, 116, 99, 104, 32, 102, 97, 105, 108, 101, 100>>

\* "Unexpected token < in JSON at position 0"
JsonSyntaxError == <<85, 110, 101, 120, 112, 101, 99, 116, 101, 100, 32,
    116, 111, 107, 101, 110, 32, 60, 32, 105, 110, 32, 74, 83, 79, 78, 32,
    97, 116, 32, 112, 111, 115, 105, 116, 105, 111, 110, 32, 48>>

\* "Cannot read properties of undefined (reading 'feedback')"
NoProjectTypeError == <<67, 97, 110, 110, 111, 116, 32, 114, 101, 97, 100,
    32, 112, 114, 111, 112, 101, 114, 116, 105, 101, 115, 32, 111, 102, 32,
    117, 110, 100, 101, 102, 105, 110, 101, 100, 32, 40, 114, 101, 97, 100,
    105, 110, 103, 32, 39, 102, 101, 101, 100, 98, 97, 99, 107, 39, 41>>

(* What fetch can do with a request.  A settled fetch is                   *)
(*   [kind |-> "rejected", error]            the fetch itself failed       *)
(*   [kind |-> "response", ok, status, statusText, text, json]             *)
(* where text and json are the completions of response.text() and          *)
(* response.json().                                                        *)
Rejected(cause) ==
    [kind |-> "rejected", error |-> RuntimeError("TypeError", cause)]

OkResponse(data) ==
    [kind |-> "response", ok |-> TRUE, status |-> 200, statusText |-> <<79, 75>>,
     text |-> Return(<<123, 125>>), json |-> Return(data)]

\* a 2xx response whose body is not JSON
UnparsableResponse ==
    [kind |-> "response", ok |-> TRUE, status |-> 200, statusText |-> <<79, 75>>,
     text |-> Return(<<60>>),
     json |-> Throw(RuntimeError("SyntaxError", JsonSyntaxError))]

ErrorResponse(status, statusText, body) ==
    [kind |-> "response", ok |-> FALSE, status |-> status, statusText |-> statusText,
     text |-> Return(body),
     json |-> Throw(RuntimeError("SyntaxError", JsonSyntaxError))]

\* a non-2xx response whose body cannot be read
UnreadableErrorResponse(status, statusText) ==
    [kind |-> "response", ok |-> FALSE, status |-> status, statusText |-> statusText,
     text |-> Throw(RuntimeError("TypeError", FetchFailed)),
     json |-> Throw(RuntimeError("TypeError", FetchFailed))]

\* RequestCatch without the instanceof test: every error is wrapped anew
RequestCatchWrapsAll(error) ==
    Throw(FeedbucketApiError(
            NetworkFailedPrefix \o
                (IF IsError(error) THEN error.message ELSE UnknownErrorText),
            0))

\* the catch block of makeRequest
RequestCatch(error) ==
    IF IsApiError(error)
    THEN Throw(error)
    ELSE Throw(FeedbucketApiError(
            NetworkFailedPrefix \o
                (IF IsError(error) THEN error.message ELSE UnknownErrorText),
            0))

\* makeRequest without its try and catch: what fetch and json() raise goes through
makeRequestUncaught(fetched) ==
    IF fetched.kind = "rejected"
    THEN Throw(fetched.error)
    ELSE IF ~fetched.ok
    THEN LET errorText == IF fetched.text.threw THEN UnknownErrorText
                          ELSE fetched.text.value
         IN  Throw(FeedbucketApiErrorWithResponse(
                ApiFailedPrefix \o NumToStr(fetched.status) \o <<32>>
                    \o fetched.statusText \o ResponseInfix \o errorText,
                fetched.status,
                errorText))
    ELSE IF fetched.json.threw
    THEN Throw(fetched.json.error)
    ELSE Return(fetched.json.value)

\* makeRequest that returns response.json() without awaiting it in the try
makeRequestJsonUnawaited(fetched) ==
    IF fetched.kind = "rejected"
    THEN RequestCatch(fetched.error)
    ELSE IF ~fetched.ok
    THEN LET errorText == IF fetched.text.threw THEN UnknownErrorText
                          ELSE fetched.text.value
         IN  RequestCatch(FeedbucketApiErrorWithResponse(
                ApiFailedPrefix \o NumToStr(fetched.status) \o <<32>>
                    \o fetched.statusText \o ResponseInfix \o errorText,
                fetched.status,
                errorText))
    ELSE IF fetched.json.threw
    THEN Throw(fetched.json.error)
    ELSE Return(fetched.json.value)

\* makeRequest, given what the fetch settled to
makeRequest(fetched) ==
    IF fetched.kind = "rejected"
    THEN RequestCatch(fetched.error)
    ELSE IF ~fetched.ok
    THEN LET errorText == IF fetched.text.threw THEN UnknownErrorText
                          ELSE fetched.text.value
         IN  RequestCatch(FeedbucketApiErrorWithResponse(
                ApiFailedPrefix \o NumToStr(fetched.status) \o <<32>>
                    \o fetched.statusText \o ResponseInfix \o errorText,
                fetched.status,
                errorText))
    ELSE IF fetched.json.threw
    THEN RequestCatch(fetched.json.error)
    ELSE Return(fetched.json.value)

\* getProjectFeedback that answers a failed fetch with an empty project
getProjectFeedbackSwallowing(fetched, options) ==
    LET response == makeRequest(fetched)
    IN  IF response.threw \/ ~Has(response.value, "project")
        THEN Return(ProcessProject(ProjectResponse(<<>>), options))
        ELSE Return(ProcessProject(response.value, options))

\* getProjectFeedback, given what its one fetch settled to
getProjectFeedback(fetched, options) ==
    LET response == makeRequest(fetched)
    IN  IF response.threw
        THEN response
        ELSE IF ~Has(response.value, "project")
        THEN Throw(RuntimeError("TypeError", NoProjectTypeError))
        ELSE Return(ProcessProject(response.value, options))


---------------------------------------------------------------------------
(* Values of the state variables while nothing is in progress *)

NoCall == [name |-> "none"]
NoClient == [phase |-> "none"]
NoRequest == [method |-> "none"]
NoHeld == <<>>
NoReply == [none |-> TRUE]

\* the objects with the optional property name drawn from S, or without it
Opt(name, S) == {<<>>} \cup {name :> v : v \in S}

---------------------------------------------------------------------------
(* The functions of api.ts applied to inputs drawn from bounded sets *)

RECURSIVE SeqsUpTo(_, _)
\* the sequences over S of length at most n
SeqsUpTo(S, n) ==
    IF n = 0 THEN {<<>>}
    ELSE LET shorter == SeqsUpTo(S, n - 1)
         IN  shorter \cup {Append(q, x) : q \in shorter, x \in S}

Templates == {FeedbackOf(i) : i \in 1..NumTemplates}

PureFeedbackSeqs == SeqsUpTo(Templates, MaxRecs)

\* FeedbackFilter values; "" is a string like any other
PureFilters ==
    {a @@ b @@ c @@ d @@ e @@ f :
        a \in Opt("resolved", BOOLEAN),
        b \in Opt("page", {<<>>, <<47, 97>>}),
        c \in Opt("reporter", {<<65, 76>>}),
        d \in Opt("type", {"video"}),
        e \in Opt("created_after", {<<>>, Day(3)}),
        f \in Opt("created_before", {<<>>, Day(3)})}

TextLens == {0, 1, SummaryTextLimit - 1, SummaryTextLimit,
             SummaryTextLimit + 1, MaxTextLen}

TextVariants == {Null} \cup {TextOfLen(n) : n \in TextLens}

TextFeedbackSeqs ==
    SeqsUpTo({[FeedbackOf(1) EXCEPT !.text = t] : t \in TextVariants}, MaxRecs)

ProjectSizes == {0, 3, BigCount}

\* ListOptions & { filter? } values handed to getProjectFeedback
QueryOptions ==
    {a @@ b @@ c @@ d :
        a \in Opt("limit", {-1, 0, 1, 10, 100}),
        b \in Opt("offset", {0, 2, 55, BigCount, BigCount + 10}),
        c \in Opt("summary", BOOLEAN),
        d \in Opt("filter", {<<>>, [resolved |-> FALSE],
                             [resolved |-> TRUE, type |-> "video"]})}

\* what the fetch of GET /projects/{id} can settle to while the collection is fb
ProjectFetches(fb) ==
    {OkResponse(ProjectResponse(fb)),
     OkResponse([message |-> NotFoundText]),
     UnparsableResponse,
     ErrorResponse(500, InternalServerError, ServerErrorBody),
     UnreadableErrorResponse(404, NotFoundText),
     Rejected(FetchFailed)}

---------------------------------------------------------------------------
(* config.ts: the configuration the server runs with *)

\* "https://dashboard.feedbucket.app/api/v1"
DefaultBaseUrl == <<104, 116, 116, 112, 115, 58, 47, 47, 100, 97, 115, 104,
    98, 111, 97, 114, 100, 46, 102, 101, 101, 100, 98, 117, 99, 107, 101,
    116, 46, 97, 112, 112, 47, 97, 112, 105, 47, 118, 49>>

\* validateConfig that does not look at the private key
validateConfigIdOnly(config) ==
    LET ProjectIdRequired == \* "FEEDBUCKET_PROJECT_ID is required"
            <<70, 69, 69, 68, 66, 85, 67, 75, 69, 84, 95, 80, 82, 79, 74, 69, 67, 84,
            95, 73, 68, 32, 105, 115, 32, 114, 101, 113, 117, 105, 114, 101, 100>>
        BaseUrlRequired == \* "FEEDBUCKET_BASE_URL is required"
            <<70, 69, 69, 68, 66, 85, 67, 75, 69, 84, 95, 66, 65, 83, 69, 95, 85, 82,
            76, 32, 105, 115, 32, 114, 101, 113, 117, 105, 114, 101, 100>>
        errors ==
            (IF ~TruthyField(config, "projectId") THEN <<ProjectIdRequired>> ELSE <<>>)
            \o (IF ~TruthyField(config, "baseUrl") THEN <<BaseUrlRequired>> ELSE <<>>)
    IN  [success |-> Len(errors) = 0, errors |-> errors]

\* validateConfig
validateConfig(config) ==
    LET ProjectIdRequired == \* "FEEDBUCKET_PROJECT_ID is required"
            <<70, 69, 69, 68, 66, 85, 67, 75, 69, 84, 95, 80, 82, 79, 74, 69, 67, 84,
            95, 73, 68, 32, 105, 115, 32, 114, 101, 113, 117, 105, 114, 101, 100>>
        PrivateKeyRequired == \* "FEEDBUCKET_PRIVATE_KEY is required"
            <<70, 69, 69, 68, 66, 85, 67, 75, 69, 84, 95, 80, 82, 73, 86, 65, 84, 69,
            95, 75, 69, 89, 32, 105, 115, 32, 114, 101, 113, 117, 105, 114, 101,
            100>>
        BaseUrlRequired == \* "FEEDBUCKET_BASE_URL is required"
            <<70, 69, 69, 68, 66, 85, 67, 75, 69, 84, 95, 66, 65, 83, 69, 95, 85, 82,
            76, 32, 105, 115, 32, 114, 101, 113, 117, 105, 114, 101, 100>>
        errors ==
            (IF ~TruthyField(config, "projectId") THEN <<ProjectIdRequired>> ELSE <<>>)
            \o (IF ~TruthyField(config, "privateKey") THEN <<PrivateKeyRequired>> ELSE <<>>)
            \o (IF ~TruthyField(config, "baseUrl") THEN <<BaseUrlRequired>> ELSE <<>>)
    IN  [success |-> Len(errors) = 0, errors |-> errors]

\* getConfig, env being process.env: a variable that is not set is missing
getConfig(env) ==
    LET OrEmpty(name) == IF TruthyField(env, name) THEN env[name] ELSE <<>>
        runtimeConfig ==
            [projectId |-> OrEmpty("FEEDBUCKET_PROJECT_ID"),
             privateKey |-> OrEmpty("FEEDBUCKET_PRIVATE_KEY"),
             baseUrl |-> IF TruthyField(env, "FEEDBUCKET_BASE_URL")
                         THEN env.FEEDBUCKET_BASE_URL ELSE DefaultBaseUrl]
            @@ (IF TruthyField(env, "FEEDBUCKET_API_KEY")
                THEN [apiKey |-> env.FEEDBUCKET_API_KEY] ELSE <<>>)
        validation == validateConfig(runtimeConfig)
        errors == validation.errors
        Failed == \* "Configuration validation failed:" and errors.join('\n')
            <<67, 111, 110, 102, 105, 103, 117, 114, 97, 116, 105, 111, 110, 32, 118,
            97, 108, 105, 100, 97, 116, 105, 111, 110, 32, 102, 97, 105, 108,
            101, 100, 58>>
            \o <<10>> \o errors[1]
            \o (IF Len(errors) > 1 THEN <<10>> \o errors[2] ELSE <<>>)
            \o (IF Len(errors) > 2 THEN <<10>> \o errors[3] ELSE <<>>)
    IN  IF ~validation.success
        THEN Throw(Error(Failed))
        ELSE Return(runtimeConfig)

\* index.ts lines 40-48: the api is built from the configuration, or the
\* process exits with code 1 before the server is connected
Initialise(env) ==
    LET config == getConfig(env)
    IN  IF config.threw
        THEN [process |-> "exited", code |-> 1]
        ELSE [process |-> "serving", api |-> config.value]

\* a valid configuration: project "p1", private key "sk", no public API key
Config ==
    [projectId |-> <<112, 49>>, privateKey |-> <<115, 107>>, baseUrl |-> DefaultBaseUrl]

---------------------------------------------------------------------------
(* api.ts: the requests the client sends *)

\* "/projects/", "?feedbucketKey=", "/feedback/", "/comments?key=", "/resolve?key="
ProjectsPath == <<47, 112, 114, 111, 106, 101, 99, 116, 115, 47>>
FeedbucketKeyParam == <<63, 102, 101, 101, 100, 98, 117, 99, 107, 101, 116,
    75, 101, 121, 61>>
FeedbackPath == <<47, 102, 101, 101, 100, 98, 97, 99, 107, 47>>
CommentsPath == <<47, 99, 111, 109, 109, 101, 110, 116, 115, 63, 107, 101,
    121, 61>>
ResolvePath == <<47, 114, 101, 115, 111, 108, 118, 101, 63, 107, 101, 121,
    61>>

\* the fetch call of makeRequest: fetch(url, {...options, headers})
FetchCall(config, endpoint, options) ==
    [url |-> config.baseUrl \o endpoint] @@ options

\* the endpoint of getProjectFeedback and getStatus
ProjectEndpoint(config) ==
    ProjectsPath \o config.projectId
        \o (IF TruthyField(config, "apiKey")
            THEN FeedbucketKeyParam \o config.apiKey ELSE <<>>)

\* ProjectRequest sent as a state-changing request
ProjectRequestAsPut(config) ==
    FetchCall(config, ProjectEndpoint(config), [method |-> "PUT", body |-> <<>>])

\* the request of getProjectFeedback and getStatus: no method given, so a GET
ProjectRequest(config) ==
    FetchCall(config, ProjectEndpoint(config), [method |-> "GET"])

\* x || fallback, for an optional string property
OrElse(obj, field, fallback) ==
    IF TruthyField(obj, field) THEN obj[field] ELSE fallback

\* addCommentRequest that leaves the resolve parameter out of the payload's flag
addCommentRequestNoResolve(config, p) ==
    FetchCall(config,
        FeedbackPath \o NumToStr(p.feedbackId) \o CommentsPath \o config.privateKey,
        [method |-> "POST",
         body |-> [body |-> p.body,
                   resolve |-> FALSE,
                   reporter |-> [name |-> OrElse(p, "reporterName", DefaultReporterName),
                                 email |-> OrElse(p, "reporterEmail", DefaultReporterEmail)],
                   mentions |-> Null,
                   attachments |-> Null]])

\* addComment(feedbackId, body, reporterName?, reporterEmail?, resolve = false);
\* p holds the arguments, an undefined one missing
addCommentRequest(config, p) ==
    FetchCall(config,
        FeedbackPath \o NumToStr(p.feedbackId) \o CommentsPath \o config.privateKey,
        [method |-> "POST",
         body |-> [body |-> p.body,
                   resolve |-> IF Has(p, "resolve") THEN p.resolve ELSE FALSE,
                   reporter |-> [name |-> OrElse(p, "reporterName", DefaultReporterName),
                                 email |-> OrElse(p, "reporterEmail", DefaultReporterEmail)],
                   mentions |-> Null,
                   attachments |-> Null]])

\* resolveFeedback(feedbackId)
resolveFeedbackRequest(config, feedbackId) ==
    FetchCall(config,
        FeedbackPath \o NumToStr(feedbackId) \o ResolvePath \o config.privateKey,
        [method |-> "PUT", body |-> <<>>])

\* addComment and resolveFeedback return what makeRequest returns
addComment(fetched) == makeRequest(fetched)
resolveFeedback(fetched) == makeRequest(fetched)

\* Array.prototype.find by id: the index of the first match, 0 for none
FindIndexById(feedback, feedbackId) ==
    IF \E i \in 1..Len(feedback) : feedback[i].id = feedbackId
    THEN CHOOSE i \in 1..Len(feedback) :
            /\ feedback[i].id = feedbackId
            /\ \A j \in 1..(i - 1) : feedback[j].id # feedbackId
    ELSE 0

\* getFeedbackById that raises a plain Error for a record that is not there
getFeedbackByIdPlainError(fetched, feedbackId) ==
    LET allFeedback == getProjectFeedback(fetched, [summary |-> FALSE])
    IN  IF allFeedback.threw
        THEN allFeedback
        ELSE LET i == FindIndexById(allFeedback.value.feedback, feedbackId)
             IN  IF i = 0
                 THEN Throw(Error(NotFoundPrefix \o NumToStr(feedbackId) \o NotFoundSuffix))
                 ELSE Return(allFeedback.value.feedback[i])

\* getFeedbackById that searches the default page of ten records
getFeedbackByIdFirstPage(fetched, feedbackId) ==
    LET allFeedback == getProjectFeedback(fetched, [summary |-> FALSE, limit |-> 10])
    IN  IF allFeedback.threw
        THEN allFeedback
        ELSE LET i == FindIndexById(allFeedback.value.feedback, feedbackId)
             IN  IF i = 0
                 THEN Throw(FeedbucketApiError(
                        NotFoundPrefix \o NumToStr(feedbackId) \o NotFoundSuffix, 404))
                 ELSE Return(allFeedback.value.feedback[i])

\* getFeedbackById, given what its one fetch settled to
getFeedbackById(fetched, feedbackId) ==
    LET allFeedback == getProjectFeedback(fetched, [summary |-> FALSE])
    IN  IF allFeedback.threw
        THEN allFeedback
        ELSE LET i == FindIndexById(allFeedback.value.feedback, feedbackId)
             IN  IF i = 0
                 THEN Throw(FeedbucketApiError(
                        NotFoundPrefix \o NumToStr(feedbackId) \o NotFoundSuffix, 404))
                 ELSE Return(allFeedback.value.feedback[i])

\* new Date().toISOString() at the time of the run: "2025-01-09T00:00:00Z"
Now == Day(9)

\* getStatus that takes any response, whatever its status, for a connection
getStatusPing(fetched) ==
    LET response == makeRequest(fetched)
    IN  IF ~response.threw \/ fetched.kind = "response"
        THEN [status |-> Connected, timestamp |-> Now]
        ELSE [status |-> IF IsApiError(response.error)
                         THEN ErrorPrefix \o response.error.message
                         ELSE ErrorUnknown,
              timestamp |-> Now]

\* getStatus, given what its one fetch settled to
getStatus(fetched) ==
    LET response == makeRequest(fetched)
    IN  IF ~response.threw
        THEN [status |-> Connected, timestamp |-> Now]
        ELSE [status |-> IF IsApiError(response.error)
                         THEN ErrorPrefix \o response.error.message
                         ELSE ErrorUnknown,
              timestamp |-> Now]

---------------------------------------------------------------------------
(* The methods of api.ts applied to drawn inputs *)

\* "Bad Request", "connect ETIMEDOUT"
BadRequest == <<66, 97, 100, 32, 82, 101, 113, 117, 101, 115, 116>>
ConnectTimedOut == <<99, 111, 110, 110, 101, 99, 116, 32, 69, 84, 73, 77, 69,
    68, 79, 85, 84>>

\* status lines and bodies of non-2xx responses
StatusLines ==
    {<<400, BadRequest>>, <<404, NotFoundText>>, <<500, InternalServerError>>}
ErrorBodies == {<<>>, ServerErrorBody, <<123, 125>>}

\* what the fetch of makeRequest can settle to
RequestFetches ==
    {OkResponse(ProjectResponse(Project(1))),
     OkResponse([message |-> NotFoundText]),
     UnparsableResponse}
    \cup {ErrorResponse(sl[1], sl[2], body) : sl \in StatusLines, body \in ErrorBodies}
    \cup {UnreadableErrorResponse(sl[1], sl[2]) : sl \in StatusLines}
    \cup {Rejected(cause) : cause \in {FetchFailed, ConnectTimedOut}}

\* the collections getFeedbackById searches: the projects, and two records
\* that share an id
GetCollections ==
    {Project(n) : n \in ProjectSizes}
    \cup {<<FeedbackOf(2), FeedbackOf(1), [FeedbackOf(3) EXCEPT !.id = 1]>>}

\* ids at the front, past the default page of 10, past 50, at the end, absent
GetIds == {1, 2, 11, 51, BigCount, 99999}

\* process.env: each variable not set, set to "", or set to a value
\* ("p1", "sk", "http://h", "pk")
Environments ==
    {a @@ b @@ c @@ d :
        a \in Opt("FEEDBUCKET_PROJECT_ID", {<<>>, <<112, 49>>}),
        b \in Opt("FEEDBUCKET_PRIVATE_KEY", {<<>>, <<115, 107>>}),
        c \in Opt("FEEDBUCKET_BASE_URL", {<<>>, <<104, 116, 116, 112, 58, 47, 47, 104>>}),
        d \in Opt("FEEDBUCKET_API_KEY", {<<>>, <<112, 107>>})}

PureInit ==
    /\ upstream = <<>>
    /\ pc = "idle"
    /\ call = NoCall
    /\ pending = NoRequest
    /\ held = NoHeld
    /\ sent = <<>>
    /\ settled = <<>>
    /\ reply = NoReply
    /\ client = NoClient

ApplyFilter ==
    /\ pc = "idle"
    /\ \E feedback \in PureFeedbackSeqs, filter \in PureFilters :
        /\ call' = [name |-> "filterFeedback", feedback |-> feedback, filter |-> filter]
        /\ reply' = Return(filterFeedback(feedback, filter))
    /\ pc' = "done"
    /\ UNCHANGED <<upstream, pending, held, sent, settled, client>>

ApplySummarize ==
    /\ pc = "idle"
    /\ \E feedback \in TextFeedbackSeqs :
        /\ call' = [name |-> "summarizeFeedback", feedback |-> feedback]
        /\ reply' = Return(summarizeFeedback(feedback))
    /\ pc' = "done"
    /\ UNCHANGED <<upstream, pending, held, sent, settled, client>>

ApplyQuery ==
    /\ pc = "idle"
    /\ \E n \in ProjectSizes, options \in QueryOptions :
        \E fetched \in ProjectFetches(Project(n)) :
            /\ call' = [name |-> "getProjectFeedback", feedback |-> Project(n),
                        fetched |-> fetched, options |-> options]
            /\ reply' = getProjectFeedback(fetched, options)
    /\ pc' = "done"
    /\ UNCHANGED <<upstream, pending, held, sent, settled, client>>

ApplyRequest ==
    /\ pc = "idle"
    /\ \E fetched \in RequestFetches :
        /\ call' = [name |-> "makeRequest", fetched |-> fetched]
        /\ reply' = makeRequest(fetched)
    /\ pc' = "done"
    /\ UNCHANGED <<upstream, pending, held, sent, settled, client>>

ApplyGet ==
    /\ pc = "idle"
    /\ \E feedback \in GetCollections, feedbackId \in GetIds :
        \E fetched \in ProjectFetches(feedback) :
            /\ call' = [name |-> "getFeedbackById", feedback |-> feedback,
                        fetched |-> fetched, feedbackId |-> feedbackId]
            /\ reply' = getFeedbackById(fetched, feedbackId)
    /\ pc' = "done"
    /\ UNCHANGED <<upstream, pending, held, sent, settled, client>>

ApplyConfig ==
    /\ pc = "idle"
    /\ \E env \in Environments :
        /\ call' = [name |-> "getConfig", env |-> env, started |-> Initialise(env)]
        /\ reply' = getConfig(env)
    /\ pc' = "done"
    /\ UNCHANGED <<upstream, pending, held, sent, settled, client>>

PureDone ==
    /\ pc = "done"
    /\ pc' = "idle"
    /\ call' = NoCall
    /\ reply' = NoReply
    /\ UNCHANGED <<upstream, pending, held, sent, settled, client>>

PureNext ==
    \/ ApplyFilter
    \/ ApplySummarize
    \/ ApplyQuery
    \/ ApplyRequest
    \/ ApplyGet
    \/ ApplyConfig
    \/ PureDone

SpecPure == PureInit /\ [][PureNext]_vars

---------------------------------------------------------------------------
(* The remote service *)

\* "Comment created", "Feedback resolved"
CommentCreated == <<67, 111, 109, 109, 101, 110, 116, 32, 99, 114, 101, 97,
    116, 101, 100>>
FeedbackResolved == <<70, 101, 101, 100, 98, 97, 99, 107, 32, 114, 101, 115,
    111, 108, 118, 101, 100>>

\* most comments the service keeps on one record
MaxComments == 2

IsDigit(c) == c >= 48 /\ c <= 57

RECURSIVE ParseDigits(_, _, _)
\* the number written in s from position i on, acc being the digits read so far
ParseDigits(s, i, acc) ==
    IF i <= Len(s) /\ IsDigit(s[i])
    THEN ParseDigits(s, i + 1, 10 * acc + (s[i] - 48))
    ELSE acc

\* the id in /feedback/{id}/..., as the service reads it from the URL
TargetId(config, request) ==
    ParseDigits(request.url, Len(config.baseUrl) + Len(FeedbackPath) + 1, 0)

\* the collection after the service stored a comment on record i
WithComment(fb, i, payload) ==
    [fb EXCEPT ![i] =
        [@ EXCEPT !.comments = Append(@, [id |-> Len(@) + 1,
                                            body |-> payload.body,
                                            attachments |-> <<>>,
                                            created_at |-> Now,
                                            name |-> payload.reporter.name]),
                  !.resolved_at = IF payload.resolve THEN Now ELSE @]]

\* the collection after the service resolved record i
WithResolved(fb, i) == [fb EXCEPT ![i] = [@ EXCEPT !.resolved_at = Now]]

\* the ways the service can fail to answer a request, leaving its data alone
Failures ==
    {UnparsableResponse,
     ErrorResponse(500, InternalServerError, ServerErrorBody),
     UnreadableErrorResponse(404, NotFoundText),
     Rejected(FetchFailed)}

\* what a request can settle to, and the collection the service then holds
Served(config, request, fb) ==
    LET failed == {[fetched |-> f, upstream |-> fb] : f \in Failures}
        i == FindIndexById(fb, TargetId(config, request))
    IN  CASE request.method = "GET" ->
                {[fetched |-> f, upstream |-> fb] : f \in ProjectFetches(fb)}
          [] request.method = "POST" ->
                IF i = 0 \/ Len(fb[i].comments) >= MaxComments
                THEN failed
                ELSE LET after == WithComment(fb, i, request.body)
                         made == after[i].comments[Len(after[i].comments)]
                     IN  failed \cup
                         {[fetched |-> OkResponse([message |-> CommentCreated,
                                                   comment |-> made]),
                           upstream |-> after]}
          [] request.method = "PUT" ->
                IF i = 0
                THEN failed
                ELSE failed \cup
                     {[fetched |-> OkResponse([message |-> FeedbackResolved,
                                               feedback |-> WithResolved(fb, i)[i]]),
                       upstream |-> WithResolved(fb, i)]}


---------------------------------------------------------------------------
(* index.ts: the CallTool handler *)

\* the limit feedback_list applies when none is asked for
DefaultLimit == 10
\* the most items feedback_list hands out
MaxLimit == 50

\* "webhook_list": a name no tool has
WebhookList == <<119, 101, 98, 104, 111, 111, 107, 95, 108, 105, 115, 116>>

\* the characters of a tool name, for the message of the default case
ToolNameText(name) == IF name = "webhook_list" THEN WebhookList ELSE <<63>>

\* a handler stops in one of three ways: it throws, it awaits a request, it returns
Throws(e) == [kind |-> "throw", error |-> e]
Awaits(request, locals) == [kind |-> "await", request |-> request, held |-> locals]
Returns(data) == [kind |-> "return", value |-> data]

\* return { content: [{ type: 'text', text: JSON.stringify(data, null, 2) }] };
\* text holds the value that is serialised
TextResult(data) == [content |-> <<[type |-> "text", text |-> data]>>]

\* CatchBlock that converts the client's own failures and lets the others go
CatchBlockApiOnly(error) ==
    IF IsApiError(error)
    THEN [content |-> <<[type |-> "text",
                        text |-> [error |-> ApiErrorPrefix \o NumToStr(error.status)
                                            \o ApiErrorInfix \o error.message]]>>,
          isError |-> TRUE]
    ELSE [uncaught |-> error]

\* the catch block of the handler
CatchBlock(error) ==
    LET errorMessage ==
            IF IsApiError(error)
            THEN ApiErrorPrefix \o NumToStr(error.status) \o ApiErrorInfix \o error.message
            ELSE IF IsError(error) THEN error.message
            ELSE UnknownErrorOccurred
    IN  [content |-> <<[type |-> "text", text |-> [error |-> errorMessage]]>>,
         isError |-> TRUE]

\* args?.x is set and truthy, for a number
TruthyNumField(obj, field) == Has(obj, field) /\ TruthyNum(obj[field])

\* ListFilter with the resolved argument tested for truthiness
ListFilterTruthyResolved(args) ==
    (IF Has(args, "resolved") /\ args.resolved THEN [resolved |-> args.resolved] ELSE <<>>)
    @@ (IF TruthyField(args, "page_filter")
        THEN [page |-> args.page_filter] ELSE <<>>)
    @@ (IF TruthyField(args, "reporter_filter")
        THEN [reporter |-> args.reporter_filter] ELSE <<>>)
    @@ (IF TruthyEnum(args, "feedback_type")
        THEN [type |-> args.feedback_type] ELSE <<>>)
    @@ (IF TruthyField(args, "created_after")
        THEN [created_after |-> args.created_after] ELSE <<>>)

\* lines 185-205 of case 'feedback_list': the filter built from the arguments
ListFilter(args) ==
    (IF Has(args, "resolved") THEN [resolved |-> args.resolved] ELSE <<>>)
    @@ (IF TruthyField(args, "page_filter")
        THEN [page |-> args.page_filter] ELSE <<>>)
    @@ (IF TruthyField(args, "reporter_filter")
        THEN [reporter |-> args.reporter_filter] ELSE <<>>)
    @@ (IF TruthyEnum(args, "feedback_type")
        THEN [type |-> args.feedback_type] ELSE <<>>)
    @@ (IF TruthyField(args, "created_after")
        THEN [created_after |-> args.created_after] ELSE <<>>)

\* lines 182-215 of case 'feedback_list': the locals before the fetch
ListLocals(args) ==
    LET requestedLimit == IF TruthyNumField(args, "limit") THEN args.limit
                          ELSE DefaultLimit
        aiOptimizedLimit == Min(requestedLimit, MaxLimit)
        filter == ListFilter(args)
        options ==
            [limit |-> aiOptimizedLimit,
             offset |-> IF TruthyNumField(args, "offset") THEN args.offset ELSE 0,
             summary |-> ~(Has(args, "summary") /\ args.summary = FALSE)]
            @@ (IF DOMAIN filter # {} THEN [filter |-> filter] ELSE <<>>)
    IN  [requestedLimit |-> requestedLimit,
         aiOptimizedLimit |-> aiOptimizedLimit,
         options |-> options]

\* HasMore told from the page being full
HasMoreFromLimit(options, result) ==
    Len(result.feedback) = options.limit

\* HasMore with the comparison made inclusive
HasMoreInclusive(options, result) ==
    (IF TruthyNum(options.offset) THEN options.offset ELSE 0) + Len(result.feedback)
        <= result.total_count

\* has_more: (options.offset || 0) + result.feedback.length < result.total_count
HasMore(options, result) ==
    (IF TruthyNum(options.offset) THEN options.offset ELSE 0) + Len(result.feedback)
        < result.total_count

\* lines 219-237: responseData
ListResponseData(locals, result) ==
    [project |-> result.project.name,
     data_stats |-> result.data_optimization,
     feedback |-> result.feedback,
     pagination |->
        [showing |-> Len(result.feedback),
         total_available |-> result.total_count,
         offset |-> locals.options.offset,
         limit |-> locals.options.limit,
         has_more |-> HasMore(locals.options, result)],
     ai_optimization |->
        [summary_mode |-> locals.options.summary,
         limit_applied |-> locals.requestedLimit # locals.aiOptimizedLimit,
         original_limit_requested |-> locals.requestedLimit,
         ai_optimized_limit |-> locals.aiOptimizedLimit,
         filter_applied |-> Has(locals.options, "filter")]]

\* lines 270-279: what feedback_comment reports
CommentData(feedbackId, result) ==
    [message |-> result.message,
     comment |-> [id |-> result.comment.id,
                  body |-> result.comment.body,
                  name |-> result.comment.name,
                  created_at |-> result.comment.created_at],
     feedback_id |-> feedbackId]

\* lines 298-304: what feedback_resolve reports
ResolveData(result) ==
    [message |-> result.message,
     feedback_id |-> result.feedback.id,
     title |-> result.feedback.title,
     resolved_at |-> result.feedback.resolved_at,
     reporter |-> result.feedback.reporter.name]

\* lines 322-353: what feedback_get reports
GetData(feedback) ==
    [id |-> feedback.id,
     type |-> feedback.type,
     title |-> feedback.title,
     text |-> feedback.text,
     reporter |-> [name |-> feedback.reporter.name, email |-> feedback.reporter.email],
     page |-> feedback.session_data.page,
     device |-> feedback.session_data.device,
     browser |-> feedback.session_data.browser,
     system |-> feedback.session_data.system,
     screen |-> [width |-> feedback.session_data.screenWidth,
                 height |-> feedback.session_data.screenHeight,
                 viewport_width |-> feedback.session_data.viewportWidth,
                 viewport_height |-> feedback.session_data.viewportHeight],
     resource |-> feedback.resource,
     attachments |-> feedback.attachments,
     tags |-> feedback.tags,
     created_at |-> feedback.created_at,
     resolved_at |-> feedback.resolved_at,
     comments |-> [k \in 1..Len(feedback.comments) |->
                    [id |-> feedback.comments[k].id,
                     body |-> feedback.comments[k].body,
                     name |-> feedback.comments[k].name,
                     created_at |-> feedback.comments[k].created_at]],
     console_logs |-> feedback.session_data.devDataOverview]

\* feedbackList.filter(pred).length
CountWhere(feedback, Pred(_)) == Cardinality({i \in 1..Len(feedback) : Pred(feedback[i])})

\* new Date(created_at) as a day number; the model's timestamps are days of
\* January 2025 at midnight UTC
DayNumber(ts) == ParseDigits(ts, 9, 0)

RECURSIVE PageOrder(_, _)
\* the keys of the reduce accumulator in insertion order: the pages of
\* feedback[i..] that are not in seen
PageOrder(feedback, seen) ==
    IF Len(feedback) = 0 THEN <<>>
    ELSE LET page == Head(feedback).session_data.page
         IN  IF \E k \in 1..Len(seen) : seen[k] = page
             THEN PageOrder(Tail(feedback), seen)
             ELSE <<page>> \o PageOrder(Tail(feedback), Append(seen, page))

RECURSIVE InsertByCount(_, _)
\* entry placed after the entries of sorted whose count is not smaller
InsertByCount(sorted, entry) ==
    IF Len(sorted) = 0 THEN <<entry>>
    ELSE IF Head(sorted).count >= entry.count
    THEN <<Head(sorted)>> \o InsertByCount(Tail(sorted), entry)
    ELSE <<entry>> \o sorted

RECURSIVE SortByCountDesc(_)
\* entries.sort((a, b) => b[1] - a[1]), a stable sort
SortByCountDesc(entries) ==
    IF Len(entries) = 0 THEN <<>>
    ELSE InsertByCount(SortByCountDesc(SubSeq(entries, 1, Len(entries) - 1)),
                       entries[Len(entries)])

\* lines 388-397: top_pages
TopPages(feedback) ==
    LET pages == PageOrder(feedback, <<>>)
        entries == [k \in 1..Len(pages) |->
                        [page |-> pages[k],
                         count |-> CountWhere(feedback,
                                    LAMBDA f : f.session_data.page = pages[k])]]
    IN  Slice(SortByCountDesc(entries), 0, 5)

\* lines 364-398: stats
StatsData(result, feedbackList) ==
    [project |-> result.project.name,
     total_feedback |-> result.data_optimization.original_count,
     resolved |-> CountWhere(feedbackList, LAMBDA f : f.resolved_at # Null),
     unresolved |-> CountWhere(feedbackList, LAMBDA f : f.resolved_at = Null),
     by_type |->
        [screenshot |-> CountWhere(feedbackList, LAMBDA f : f.type = "screenshot"),
         video |-> CountWhere(feedbackList, LAMBDA f : f.type = "video"),
         text |-> CountWhere(feedbackList, LAMBDA f : f.type = "text")],
     recent_activity |->
        [last_7_days |-> CountWhere(feedbackList,
            LAMBDA f : DayNumber(f.created_at) > DayNumber(Now) - 7),
         last_30_days |-> CountWhere(feedbackList,
            LAMBDA f : DayNumber(f.created_at) > DayNumber(Now) - 30)],
     top_pages |-> TopPages(feedbackList)]


\* !args?.feedback_id
MissingId(args) == ~TruthyNumField(args, "feedback_id")

\* the arguments feedback_comment hands to addComment
CommentParams(args) ==
    [feedbackId |-> args.feedback_id, body |-> args.comment]
    @@ (IF Has(args, "reporter_name") THEN [reporterName |-> args.reporter_name] ELSE <<>>)
    @@ (IF Has(args, "reporter_email") THEN [reporterEmail |-> args.reporter_email] ELSE <<>>)
    @@ (IF Has(args, "resolve") THEN [resolve |-> args.resolve] ELSE <<>>)

\* the switch statement from its top to the first await
ToolStart(name, args) ==
    CASE name = "feedback_list" ->
            Awaits(ProjectRequest(Config), ListLocals(args))
      [] name = "feedback_comment" ->
            IF MissingId(args) THEN Throws(Error(FeedbackIdRequired))
            ELSE IF ~TruthyField(args, "comment") THEN Throws(Error(CommentRequired))
            ELSE Awaits(addCommentRequest(Config, CommentParams(args)),
                        [feedbackId |-> args.feedback_id])
      [] name = "feedback_resolve" ->
            IF MissingId(args) THEN Throws(Error(FeedbackIdRequired))
            ELSE Awaits(resolveFeedbackRequest(Config, args.feedback_id),
                        [feedbackId |-> args.feedback_id])
      [] name = "feedback_get" ->
            IF MissingId(args) THEN Throws(Error(FeedbackIdRequired))
            ELSE Awaits(ProjectRequest(Config), [feedbackId |-> args.feedback_id])
      [] name = "feedback_stats" ->
            Awaits(ProjectRequest(Config), [fetches |-> 1])
      [] name = "api_status" ->
            Awaits(ProjectRequest(Config), <<>>)
      [] OTHER ->
            Throws(Error(UnknownToolPrefix \o ToolNameText(name)))

\* a completion of an api method, handed on: a throw leaves the switch
Then(completion, Use(_)) ==
    IF completion.threw THEN Throws(completion.error) ELSE Use(completion.value)

\* the switch statement from an await that settled to the next await or the return
ToolResume(name, locals, fetched) ==
    CASE name = "feedback_list" ->
            Then(getProjectFeedback(fetched, locals.options),
                 LAMBDA result : Returns(TextResult(ListResponseData(locals, result))))
      [] name = "feedback_comment" ->
            Then(addComment(fetched),
                 LAMBDA result :
                    IF Has(result, "comment")
                    THEN Returns(TextResult(CommentData(locals.feedbackId, result)))
                    ELSE Throws(RuntimeError("TypeError", NoProjectTypeError)))
      [] name = "feedback_resolve" ->
            Then(resolveFeedback(fetched),
                 LAMBDA result :
                    IF Has(result, "feedback")
                    THEN Returns(TextResult(ResolveData(result)))
                    ELSE Throws(RuntimeError("TypeError", NoProjectTypeError)))
      [] name = "feedback_get" ->
            Then(getFeedbackById(fetched, locals.feedbackId),
                 LAMBDA feedback : Returns(TextResult(GetData(feedback))))
      [] name = "feedback_stats" ->
            IF locals.fetches = 1
            THEN Then(getProjectFeedback(fetched, [summary |-> TRUE]),
                      LAMBDA result :
                        Awaits(ProjectRequest(Config), [fetches |-> 2, result |-> result]))
            ELSE Then(getProjectFeedback(fetched, [summary |-> FALSE]),
                      LAMBDA allFeedback :
                        Returns(TextResult(StatsData(locals.result, allFeedback.feedback))))
      [] name = "api_status" ->
            Returns(TextResult(getStatus(fetched)))

---------------------------------------------------------------------------
(* The server: one tool invocation at a time against the remote service *)

ToolNames ==
    {"feedback_list", "feedback_comment", "feedback_resolve", "feedback_get",
     "feedback_stats", "api_status"}

\* arguments of feedback_list that vary the page
PagingArgs ==
    {a @@ b @@ c @@ d :
        a \in Opt("limit", {-1, 0, 5, 100}),
        b \in Opt("offset", {5, 55, BigCount + 10}),
        c \in Opt("summary", BOOLEAN),
        d \in Opt("resolved", {FALSE})}

\* arguments of feedback_list that vary the filter
FilterArgs ==
    {a @@ b @@ c @@ d @@ e :
        a \in Opt("resolved", BOOLEAN),
        b \in Opt("page_filter", {<<>>, <<47, 97>>}),
        c \in Opt("reporter_filter", {<<65, 76>>}),
        d \in Opt("feedback_type", {"video"}),
        e \in Opt("created_after", {Day(3)})}

ListArgs == PagingArgs \cup FilterArgs

\* "please clarify", "Dev", "d@x.io"
CommentArgs ==
    {a @@ b @@ c @@ d @@ e :
        a \in Opt("feedback_id", {0, 1, 99999}),
        b \in Opt("comment", {<<>>, <<112, 108, 101, 97, 115, 101, 32, 99, 108, 97,
                                     114, 105, 102, 121>>}),
        c \in Opt("reporter_name", {<<68, 101, 118>>}),
        d \in Opt("reporter_email", {<<100, 64, 120, 46, 105, 111>>}),
        e \in Opt("resolve", BOOLEAN)}

IdArgs == Opt("feedback_id", {0, 1, BigCount, 99999})

Init ==
    /\ upstream \in {Project(n) : n \in ProjectSizes}
    /\ pc = "idle"
    /\ call = NoCall
    /\ pending = NoRequest
    /\ held = NoHeld
    /\ sent = <<>>
    /\ settled = <<>>
    /\ reply = NoReply
    /\ client = NoClient

\* Proceed with an error thrown after an await lost: the handler ends without
\* a result
ProceedLosingRejection(stop) ==
    CASE stop.kind = "await" ->
            /\ pc' = "await"
            /\ pending' = stop.request
            /\ sent' = Append(sent, stop.request)
            /\ held' = stop.held
            /\ reply' = NoReply
      [] stop.kind = "return" ->
            /\ pc' = "done"
            /\ pending' = NoRequest
            /\ held' = NoHeld
            /\ reply' = stop.value
            /\ UNCHANGED sent
      [] stop.kind = "throw" ->
            /\ pc' = IF pc = "await" THEN "lost" ELSE "done"
            /\ pending' = NoRequest
            /\ held' = NoHeld
            /\ reply' = IF pc = "await" THEN NoReply ELSE CatchBlock(stop.error)
            /\ UNCHANGED sent

\* what the handler does with the way its code stopped; the try block is left
\* by a throw into the catch block
Proceed(stop) ==
    CASE stop.kind = "await" ->
            /\ pc' = "await"
            /\ pending' = stop.request
            /\ sent' = Append(sent, stop.request)
            /\ held' = stop.held
            /\ reply' = NoReply
      [] stop.kind = "return" ->
            /\ pc' = "done"
            /\ pending' = NoRequest
            /\ held' = NoHeld
            /\ reply' = stop.value
            /\ UNCHANGED sent
      [] stop.kind = "throw" ->
            /\ pc' = "done"
            /\ pending' = NoRequest
            /\ held' = NoHeld
            /\ reply' = CatchBlock(stop.error)
            /\ UNCHANGED sent

\* a CallTool request arrives and the handler runs to its first await
Begin(name, args) ==
    /\ call' = [name |-> name, args |-> args]
    /\ Proceed(ToolStart(name, args))
    /\ UNCHANGED <<upstream, settled, client>>

FeedbackList ==
    /\ pc = "idle"
    /\ \E args \in ListArgs : Begin("feedback_list", args)

FeedbackComment ==
    /\ pc = "idle"
    /\ \E args \in CommentArgs : Begin("feedback_comment", args)

FeedbackResolve ==
    /\ pc = "idle"
    /\ \E args \in IdArgs : Begin("feedback_resolve", args)

FeedbackGet ==
    /\ pc = "idle"
    /\ \E args \in IdArgs : Begin("feedback_get", args)

FeedbackStats ==
    /\ pc = "idle"
    /\ Begin("feedback_stats", <<>>)

ApiStatus ==
    /\ pc = "idle"
    /\ Begin("api_status", <<>>)

\* a call that names no tool of the server
UnknownTool ==
    /\ pc = "idle"
    /\ Begin("webhook_list", <<>>)

\* Settle with a request whose fetch failed sent once more
SettleRetrying ==
    /\ pc = "await"
    /\ \E served \in Served(Config, pending, upstream) :
        /\ upstream' = served.upstream
        /\ settled' = Append(settled, served.fetched)
        /\ IF served.fetched.kind = "rejected" /\ Len(sent) < 2
           THEN Proceed(Awaits(pending, held))
           ELSE Proceed(ToolResume(call.name, held, served.fetched))
    /\ UNCHANGED <<call, client>>

\* the request in flight settles and the handler runs on
Settle ==
    /\ pc = "await"
    /\ \E served \in Served(Config, pending, upstream) :
        /\ upstream' = served.upstream
        /\ settled' = Append(settled, served.fetched)
        /\ Proceed(ToolResume(call.name, held, served.fetched))
    /\ UNCHANGED <<call, client>>

\* the result goes back to the client
Deliver ==
    /\ pc = "done"
    /\ pc' = "idle"
    /\ call' = NoCall
    /\ sent' = <<>>
    /\ settled' = <<>>
    /\ reply' = NoReply
    /\ UNCHANGED <<upstream, pending, held, client>>

Next ==
    \/ FeedbackList
    \/ FeedbackComment
    \/ FeedbackResolve
    \/ FeedbackGet
    \/ FeedbackStats
    \/ ApiStatus
    \/ UnknownTool
    \/ Settle
    \/ Deliver

Spec == Init /\ [][Next]_vars

---------------------------------------------------------------------------
(* The server with two invocations in flight at once and another client of   *)
(* the remote service.  The handler is an async function: each invocation    *)
(* has its own position, locals and pending request, kept here per slot; the *)
(* api object holds the configuration only, and the remote service is shared.*)

Slots == {"a", "b"}

ConcInit ==
    /\ upstream = Project(MaxRecs)
    /\ pc = [s \in Slots |-> "idle"]
    /\ call = [s \in Slots |-> NoCall]
    /\ pending = [s \in Slots |-> NoRequest]
    /\ held = [s \in Slots |-> NoHeld]
    /\ sent = [s \in Slots |-> <<>>]
    /\ settled = [s \in Slots |-> <<>>]
    /\ reply = [s \in Slots |-> NoReply]
    /\ client = NoClient

\* Proceed, for the invocation of slot s
ConcProceed(s, stop) ==
    CASE stop.kind = "await" ->
            /\ pc' = [pc EXCEPT ![s] = "await"]
            /\ pending' = [pending EXCEPT ![s] = stop.request]
            /\ sent' = [sent EXCEPT ![s] = Append(@, stop.request)]
            /\ held' = [held EXCEPT ![s] = stop.held]
            /\ reply' = [reply EXCEPT ![s] = NoReply]
      [] stop.kind = "return" ->
            /\ pc' = [pc EXCEPT ![s] = "done"]
            /\ pending' = [pending EXCEPT ![s] = NoRequest]
            /\ held' = [held EXCEPT ![s] = NoHeld]
            /\ reply' = [reply EXCEPT ![s] = stop.value]
            /\ UNCHANGED sent
      [] stop.kind = "throw" ->
            /\ pc' = [pc EXCEPT ![s] = "done"]
            /\ pending' = [pending EXCEPT ![s] = NoRequest]
            /\ held' = [held EXCEPT ![s] = NoHeld]
            /\ reply' = [reply EXCEPT ![s] = CatchBlock(stop.error)]
            /\ UNCHANGED sent

\* a CallTool request arrives while the other slot may be suspended
ConcBegin(s) ==
    /\ pc[s] = "idle"
    /\ \E c \in {[name |-> "feedback_list", args |-> [limit |-> 1]],
                 [name |-> "feedback_get", args |-> [feedback_id |-> 1]],
                 [name |-> "feedback_get", args |-> [feedback_id |-> 2]],
                 [name |-> "feedback_resolve", args |-> [feedback_id |-> 1]],
                 [name |-> "feedback_stats", args |-> <<>>]} :
        /\ call' = [call EXCEPT ![s] = c]
        /\ ConcProceed(s, ToolStart(c.name, c.args))
    /\ UNCHANGED <<upstream, settled, client>>

\* ConcSettle with the handler's locals kept in one place for all invocations:
\* the invocation resumes with what the other one stored there last
ConcSettleSharedLocals(s) ==
    /\ pc[s] = "await"
    /\ \E served \in Served(Config, pending[s], upstream) :
        /\ upstream' = served.upstream
        /\ settled' = [settled EXCEPT ![s] = Append(@, served.fetched)]
        /\ LET other == CHOOSE o \in Slots : o # s
               locals == IF pc[other] = "await" /\ call[other].name = call[s].name
                         THEN held[other] ELSE held[s]
           IN  ConcProceed(s, ToolResume(call[s].name, locals, served.fetched))
    /\ UNCHANGED <<call, client>>

\* the request of slot s settles and its handler runs on
ConcSettle(s) ==
    /\ pc[s] = "await"
    /\ \E served \in Served(Config, pending[s], upstream) :
        /\ upstream' = served.upstream
        /\ settled' = [settled EXCEPT ![s] = Append(@, served.fetched)]
        /\ ConcProceed(s, ToolResume(call[s].name, held[s], served.fetched))
    /\ UNCHANGED <<call, client>>

\* the result of slot s goes back to the client
ConcDeliver(s) ==
    /\ pc[s] = "done"
    /\ pc' = [pc EXCEPT ![s] = "idle"]
    /\ call' = [call EXCEPT ![s] = NoCall]
    /\ sent' = [sent EXCEPT ![s] = <<>>]
    /\ settled' = [settled EXCEPT ![s] = <<>>]
    /\ reply' = [reply EXCEPT ![s] = NoReply]
    /\ UNCHANGED <<upstream, pending, held, client>>

\* another client of the remote service files a record, or withdraws the last
OtherClient ==
    /\ \/ /\ Len(upstream) <= MaxRecs
          /\ upstream' = Append(upstream, FeedbackOf(Len(upstream) + 1))
       \/ /\ Len(upstream) > MaxRecs
          /\ upstream' = SubSeq(upstream, 1, Len(upstream) - 1)
    /\ UNCHANGED <<pc, call, pending, held, sent, settled, reply, client>>

ConcNext ==
    \/ \E s \in Slots : ConcBegin(s)
    \/ \E s \in Slots : ConcSettle(s)
    \/ \E s \in Slots : ConcDeliver(s)
    \/ OtherClient

SpecConc == ConcInit /\ [][ConcNext]_vars

---------------------------------------------------------------------------
(* A client that pages through feedback_list, one invocation at a time, the  *)
(* collection of the remote service staying as it is                         *)

PagingInit ==
    /\ upstream \in {Project(n) : n \in ProjectSizes}
    /\ pc = "idle"
    /\ call = NoCall
    /\ pending = NoRequest
    /\ held = NoHeld
    /\ sent = <<>>
    /\ settled = <<>>
    /\ reply = NoReply
    \* the fixed arguments of the traversal: a limit in 1..50 and a filter
    /\ \E limit \in {[limit |-> n] : n \in {1, 2, 7, MaxLimit}},
          filter \in {<<>>, [resolved |-> FALSE], [feedback_type |-> "video"]} :
            client = [phase |-> "paging", args |-> limit @@ filter, offset |-> 0,
                      received |-> <<>>, calls |-> 0]

\* the client asks for the page at its offset
ClientCall ==
    /\ pc = "idle"
    /\ client.phase = "paging"
    /\ Begin("feedback_list", client.args @@ [offset |-> client.offset])

\* the client takes the result: it keeps the items shown, moves its offset on
\* by their number and stops when has_more is false; on an error-flagged
\* result it gives up
ClientReceive ==
    /\ pc = "done"
    /\ client.phase = "paging"
    /\ client' =
            IF Has(reply, "isError")
            THEN [client EXCEPT !.phase = "failed", !.calls = @ + 1]
            ELSE LET data == reply.content[1].text
                 IN  [client EXCEPT
                        !.received = @ \o [k \in 1..Len(data.feedback) |->
                                                data.feedback[k].id],
                        !.offset = @ + data.pagination.showing,
                        !.calls = @ + 1,
                        !.phase = IF data.pagination.has_more
                                  THEN "paging" ELSE "stopped"]
    /\ pc' = "idle"
    /\ call' = NoCall
    /\ sent' = <<>>
    /\ settled' = <<>>
    /\ reply' = NoReply
    /\ UNCHANGED <<upstream, pending, held>>

PagingNext ==
    \/ ClientCall
    \/ Settle
    \/ ClientReceive

\* the client goes on calling and every request settles in the end
SpecPaging ==
    /\ PagingInit
    /\ [][PagingNext]_vars
    /\ WF_vars(ClientCall) /\ WF_vars(Settle) /\ WF_vars(ClientReceive)

\* the server while every request it sends is settled in the end, by a
\* response or by a network error, started on the small collections
LiveInit == Init /\ Len(upstream) < BigCount

SpecLive == LiveInit /\ [][Next]_vars /\ WF_vars(Settle)


---------------------------------------------------------------------------
(* Vocabulary of the properties, defined apart from the operators above *)

RECURSIVE LexLeq(_, _)
\* a <= b in lexicographic order
LexLeq(a, b) ==
    IF Len(a) = 0 THEN TRUE
    ELSE IF Len(b) = 0 THEN FALSE
    ELSE IF a[1] # b[1] THEN a[1] < b[1]
    ELSE LexLeq(Tail(a), Tail(b))

\* sub occurs in s as a contiguous run of characters
Contains(s, sub) ==
    \E i \in 0..Len(s) : \E j \in i..Len(s) : SubSeq(s, i + 1, j) = sub

Lowered(s) == [i \in 1..Len(s) |-> IF s[i] >= 65 /\ s[i] <= 90 THEN s[i] + 32 ELSE s[i]]

\* record r passes criterion f of filter C (C has f)
PassesCriterion(r, C, f) ==
    CASE f = "resolved" -> (r.resolved_at # Null) = C.resolved
      [] f = "page" -> Contains(r.session_data.page, C.page)
      [] f = "reporter" -> Contains(Lowered(r.reporter.name), Lowered(C.reporter))
      [] f = "type" -> r.type = C.type
      [] f = "created_after" -> LexLeq(C.created_after, r.created_at)
      [] f = "created_before" -> LexLeq(r.created_at, C.created_before)

\* the criteria a filter object carries
CriteriaSet(C) == DOMAIN C

\* the criteria a filter object carries with a value other than ""
CriteriaNonEmpty(C) == {f \in DOMAIN C : f \in {"resolved", "type"} \/ Len(C[f]) > 0}

PureIs(name) == pc = "done" /\ call.name = name

---------------------------------------------------------------------------
(* C1 *)

\* C1: filterFeedback(R, C) is the subsequence of R, in R's order,
\* of the records that pass every criterion the filter object carries.
C1_FilterConjunction ==
    PureIs("filterFeedback") =>
        reply.value = SelectSeq(call.feedback,
            LAMBDA r : \A f \in CriteriaSet(call.filter) : PassesCriterion(r, call.filter, f))

---------------------------------------------------------------------------
(* C6 *)

\* C6: the summary's text is the first 200 characters and the marker
\* when the text is longer than 200, the text itself when its length is 0..200,
\* and null when the text is null.
C6_SummaryTruncation ==
    PureIs("summarizeFeedback") =>
        \A i \in 1..Len(call.feedback) :
            LET text == call.feedback[i].text
                out == reply.value[i].text
            IN  IF text = Null THEN out = Null
                ELSE IF Len(text) > 200
                THEN out = SubSeq(text, 1, 200) \o <<46, 46, 46>>
                ELSE out = text


---------------------------------------------------------------------------
(* Vocabulary of the tool-level properties *)

ToolDone(name) == pc = "done" /\ call.name = name

\* the result is flagged as an error
Flagged == Has(reply, "isError")

\* the value serialised into the result's text
Data == reply.content[1].text

ListOk == ToolDone("feedback_list") /\ ~Flagged

\* record r passes what the filter arguments ask for, resolved apart
OtherArgsPass(r, args) ==
    /\ (Has(args, "page_filter") /\ Len(args.page_filter) > 0)
            => Contains(r.session_data.page, args.page_filter)
    /\ (Has(args, "reporter_filter") /\ Len(args.reporter_filter) > 0)
            => Contains(Lowered(r.reporter.name), Lowered(args.reporter_filter))
    /\ Has(args, "feedback_type") => r.type = args.feedback_type
    /\ (Has(args, "created_after") /\ Len(args.created_after) > 0)
            => LexLeq(args.created_after, r.created_at)

\* record (or summary) r passes the resolved argument: tri-state
ResolvedPass(r, args) ==
    Has(args, "resolved") => ((r.resolved_at # Null) = args.resolved)

\* the fetch brought a project
GoodProjectFetch(f) ==
    /\ f.kind = "response"
    /\ f.ok
    /\ ~f.json.threw
    /\ Has(f.json.value, "project")

\* the fetch brought a body that parsed
GoodFetch(f) == f.kind = "response" /\ f.ok /\ ~f.json.threw

\* some step of the invocation failed: a parameter was missing or the tool
\* unknown (nothing was sent), a request failed, a body lacked the project,
\* or the record asked for was not there
StepFailed ==
    \/ sent = <<>>
    \/ \E k \in 1..Len(settled) : ~GoodFetch(settled[k])
    \/ \E k \in 1..Len(settled) :
            /\ sent[k].method = "GET"
            /\ GoodFetch(settled[k])
            /\ ~GoodProjectFetch(settled[k])
    \/ /\ call.name = "feedback_get"
       /\ Len(settled) = 1
       /\ GoodProjectFetch(settled[1])
       /\ \A i \in 1..Len(upstream) : upstream[i].id # call.args.feedback_id

\* the filtered sequence the properties expect of getProjectFeedback
ExpectedFiltered(all, options) ==
    IF Has(options, "filter")
    THEN SelectSeq(all, LAMBDA r : \A f \in CriteriaNonEmpty(options.filter) :
                                        PassesCriterion(r, options.filter, f))
    ELSE all

QueryOk == PureIs("getProjectFeedback") /\ ~reply.threw

---------------------------------------------------------------------------
(* C2 *)

\* C2: the resolved argument of feedback_list is tri-state end to end: with
\* resolved=false only unresolved records count and are returned, with
\* resolved=true only resolved ones, and without it the resolution state of a
\* record plays no part.
C2_ResolutionTriState ==
    ListOk =>
        /\ Data.data_stats.filtered_count =
                Cardinality({i \in 1..Len(upstream) :
                                /\ OtherArgsPass(upstream[i], call.args)
                                /\ ResolvedPass(upstream[i], call.args)})
        /\ \A k \in 1..Len(Data.feedback) : ResolvedPass(Data.feedback[k], call.args)

\* feedback_list called with resolved=false as its only argument on the
\* project of three records (unresolved, resolved, unresolved)
C2_Witness ==
    /\ ListOk
    /\ call.args = [resolved |-> FALSE]
    /\ Len(upstream) = 3
    /\ Data.data_stats.filtered_count = 2
    /\ Len(Data.feedback) = 2
    /\ Data.ai_optimization.filter_applied

---------------------------------------------------------------------------
(* C3 *)

\* C3: with a limit l > 0 and an offset o >= 0 (0 when none is given), the page
\* of getProjectFeedback holds max(0, min(l, n - o)) records when o < n and none
\* otherwise, n being the number of filtered records; the call succeeds also
\* when the offset lies beyond the end.
C3_PaginationBounded ==
    (/\ PureIs("getProjectFeedback")
     /\ GoodProjectFetch(call.fetched)
     /\ Has(call.options, "limit") /\ call.options.limit > 0
     /\ Has(call.options, "offset") => call.options.offset >= 0)
    =>
        /\ ~reply.threw
        /\ LET n == Len(ExpectedFiltered(call.feedback, call.options))
               o == IF Has(call.options, "offset") THEN call.options.offset ELSE 0
               l == call.options.limit
               size == IF o < n THEN Max(0, Min(l, n - o)) ELSE 0
           IN  /\ Len(reply.value.feedback) = size
               /\ reply.value.data_optimization.returned_count = size

\* the large project, limit 10, offset 55: the last records of the collection
C3_Witness ==
    /\ QueryOk
    /\ Len(call.feedback) = BigCount
    /\ call.options = [limit |-> 10, offset |-> 55]
    /\ reply.value.data_optimization.returned_count = BigCount - 55

---------------------------------------------------------------------------
(* C4 *)

\* C4: filtered_count and total_count are the number of records of the whole
\* collection that pass the filter, whatever limit and offset are.
C4_FilteredCountIgnoresPage ==
    QueryOk =>
        LET n == Len(ExpectedFiltered(call.feedback, call.options))
        IN  /\ reply.value.data_optimization.filtered_count = n
            /\ reply.value.total_count = n

\* a filter that keeps half of the large project, on a page of one record
C4_Witness ==
    /\ QueryOk
    /\ Len(call.feedback) = BigCount
    /\ call.options = [limit |-> 1, offset |-> 2, filter |-> [resolved |-> FALSE]]
    /\ 2 * reply.value.data_optimization.filtered_count = BigCount
    /\ reply.value.data_optimization.returned_count = 1

---------------------------------------------------------------------------
(* C5 *)

\* C5: original_count is the size of the collection the fetch returned,
\* whatever filter, limit, offset and summary mode are.
C5_OriginalCount ==
    QueryOk =>
        reply.value.data_optimization.original_count =
            Len(call.fetched.json.value.project.feedback)

\* three records (unresolved, resolved, unresolved) filtered by resolved=false
C5_Witness ==
    /\ QueryOk
    /\ Len(call.feedback) = 3
    /\ Has(call.options, "filter") /\ call.options.filter = [resolved |-> FALSE]
    /\ reply.value.data_optimization.original_count = 3
    /\ reply.value.data_optimization.filtered_count = 2

---------------------------------------------------------------------------
(* C7 *)

\* C7: whatever limit feedback_list is called with, the limit handed
\* to getProjectFeedback is at most 50 and the response holds at most 50 items.
C7_LimitCeiling ==
    /\ (pc = "await" /\ call.name = "feedback_list") => held.options.limit <= 50
    /\ ListOk => (Data.pagination.limit <= 50 /\ Len(Data.feedback) <= 50)

---------------------------------------------------------------------------
(* C8 *)

\* C8: has_more is (offset + returned_count < filtered_count), the offset being
\* the one applied, and the number of items shown is returned_count.
C8_HasMore ==
    ListOk =>
        /\ Data.pagination.has_more =
                (Data.pagination.offset + Data.data_stats.returned_count
                    < Data.data_stats.filtered_count)
        /\ Data.pagination.showing = Data.data_stats.returned_count
        /\ Len(Data.feedback) = Data.data_stats.returned_count

\* a page in the middle of the large project: more records follow
C8_Witness ==
    /\ ListOk
    /\ Len(upstream) = BigCount
    /\ Data.pagination.offset = 5
    /\ Data.pagination.showing = 5
    /\ Data.pagination.has_more

---------------------------------------------------------------------------
(* C9 *)

\* a result object of the protocol: one text item, and when flagged as an error
\* the text is an object with the error message alone
IsToolResult(r) ==
    /\ Has(r, "content")
    /\ Len(r.content) = 1
    /\ r.content[1].type = "text"
    /\ Has(r, "isError") =>
            /\ r.isError
            /\ DOMAIN r.content[1].text = {"error"}
            /\ Len(r.content[1].text.error) > 0

\* C9: every invocation that ends returns a result object, for every tool name,
\* argument set and outcome of the upstream calls; the result is flagged as an
\* error exactly when a step failed (api_status reports the failure in an
\* unflagged result).
C9_EveryInvocationWrapped ==
    pc = "done" =>
        /\ IsToolResult(reply)
        /\ Flagged <=> (StepFailed /\ call.name # "api_status")

\* feedback_stats whose second fetch is answered with a non-2xx status
C9_Witness ==
    /\ ToolDone("feedback_stats")
    /\ Len(settled) = 2
    /\ GoodProjectFetch(settled[1])
    /\ settled[2].kind = "response" /\ ~settled[2].ok
    /\ Flagged

---------------------------------------------------------------------------
(* C10 *)

SummaryFields ==
    {"id", "type", "title", "text", "reporter_name", "page", "created_at",
     "resolved_at", "comment_count", "has_attachments"}

\* C10: a result whose invocation failed at some step carries the error and no
\* feedback data; a feedback_list result that is not an error carries a whole
\* page: returned_count items, each the projection in the one mode asked for of
\* a record of the collection that passes the filter.
C10_NoPartialResults ==
    pc = "done" =>
        /\ StepFailed =>
                DOMAIN Data = (IF call.name = "api_status"
                               THEN {"status", "timestamp"} ELSE {"error"})
        /\ Flagged => DOMAIN Data = {"error"}
        /\ ListOk =>
                /\ ~StepFailed
                /\ Len(Data.feedback) = Data.data_stats.returned_count
                /\ \A k \in 1..Len(Data.feedback) :
                        /\ (DOMAIN Data.feedback[k] = SummaryFields)
                                <=> Data.ai_optimization.summary_mode
                        /\ \E i \in 1..Len(upstream) :
                                /\ upstream[i].id = Data.feedback[k].id
                                /\ OtherArgsPass(upstream[i], call.args)
                                /\ ResolvedPass(upstream[i], call.args)

\* feedback_list on the large project whose fetch fails at the network
C10_Witness ==
    /\ ToolDone("feedback_list")
    /\ Len(upstream) = BigCount
    /\ Len(settled) = 1
    /\ settled[1].kind = "rejected"
    /\ Flagged
    /\ DOMAIN Data = {"error"}

---------------------------------------------------------------------------
(* C11 *)

\* the body text makeRequest reports for a non-2xx response: the text read, or
\* the placeholder when the read fails
ReportedBody(fetched) ==
    IF fetched.text.threw
    THEN <<85, 110, 107, 110, 111, 119, 110, 32, 101, 114, 114, 111, 114>>
    ELSE fetched.text.value

\* C11: on a non-2xx response makeRequest raises the typed failure whose status
\* is the HTTP status and whose response field and message contain the body
\* text, the placeholder "Unknown error" standing in for a body that cannot be
\* read.
C11_NonOkTypedFailure ==
    (PureIs("makeRequest") /\ call.fetched.kind = "response" /\ ~call.fetched.ok)
    =>
        /\ reply.threw
        /\ reply.error.name = "FeedbucketApiError"
        /\ reply.error.status = call.fetched.status
        /\ Has(reply.error, "response")
        /\ Contains(reply.error.response, ReportedBody(call.fetched))
        /\ Contains(reply.error.message, ReportedBody(call.fetched))

\* HTTP 500 with the body "server error"
C11_Witness ==
    /\ PureIs("makeRequest")
    /\ call.fetched.kind = "response"
    /\ call.fetched.status = 500
    /\ ~call.fetched.text.threw
    /\ call.fetched.text.value =
            <<115, 101, 114, 118, 101, 114, 32, 101, 114, 114, 111, 114>>
    /\ reply.threw
    /\ reply.error.status = 500
    /\ Contains(reply.error.message,
                <<115, 101, 114, 118, 101, 114, 32, 101, 114, 114, 111, 114>>)

---------------------------------------------------------------------------
(* C12 *)

\* C12: when the fetch itself fails makeRequest raises the typed failure with
\* status 0 and a message that holds the message of the underlying error.
C12_NetworkFailureStatusZero ==
    (PureIs("makeRequest") /\ call.fetched.kind = "rejected")
    =>
        /\ reply.threw
        /\ reply.error.name = "FeedbucketApiError"
        /\ reply.error.status = 0
        /\ Len(call.fetched.error.message) > 0
        /\ Contains(reply.error.message, call.fetched.error.message)

\* a connection that timed out
C12_Witness ==
    /\ PureIs("makeRequest")
    /\ call.fetched.kind = "rejected"
    /\ call.fetched.error.message = ConnectTimedOut
    /\ reply.threw
    /\ reply.error.status = 0

---------------------------------------------------------------------------
(* C13 *)

\* feedback_get fetched the project and no record of it has the id asked for
GetMissed ==
    /\ ToolDone("feedback_get")
    /\ Len(settled) = 1
    /\ GoodProjectFetch(settled[1])
    /\ LET fetchedFeedback == settled[1].json.value.project.feedback
       IN  \A i \in 1..Len(fetchedFeedback) :
                fetchedFeedback[i].id # call.args.feedback_id

\* C13: when no record of the fetched collection has the id, feedback_get
\* answers with a result flagged as an error whose text names the typed
\* failure's status 404 and says that the record was not found.
C13_NotFoundIs404 ==
    GetMissed =>
        /\ Flagged
        /\ Contains(Data.error, <<65, 80, 73, 32, 69, 114, 114, 111, 114, 32,
                                  40, 52, 48, 52, 41>>)
        /\ Contains(Data.error, <<110, 111, 116, 32, 102, 111, 117, 110, 100>>)

\* feedback_get of id 99999 on the project of three records
C13_Witness ==
    /\ GetMissed
    /\ call.args.feedback_id = 99999
    /\ Len(upstream) = 3
    /\ Flagged

---------------------------------------------------------------------------
(* C14 *)

\* the positions of the records of fb that have the id
Hits(fb, id) == {i \in 1..Len(fb) : fb[i].id = id}

\* C14: getFeedbackById succeeds exactly when some record of the whole fetched
\* collection has the id, wherever it sits, and returns the first such record
\* with every field but session_data as fetched.
C14_ScansFullCollection ==
    (PureIs("getFeedbackById") /\ GoodProjectFetch(call.fetched))
    =>
        LET hits == Hits(call.feedback, call.feedbackId)
        IN  /\ ~reply.threw <=> hits # {}
            /\ hits # {} =>
                    LET first == call.feedback[CHOOSE i \in hits : \A j \in hits : i <= j]
                    IN  /\ DOMAIN reply.value = DOMAIN first
                        /\ \A f \in DOMAIN first \ {"session_data"} :
                                reply.value[f] = first[f]

\* the last record of the large project, far beyond position 50
C14_Witness ==
    /\ PureIs("getFeedbackById")
    /\ GoodProjectFetch(call.fetched)
    /\ Len(call.feedback) = BigCount
    /\ call.feedbackId = BigCount
    /\ ~reply.threw
    /\ reply.value.id = BigCount

---------------------------------------------------------------------------
(* C15 *)

\* the id argument is one the handlers accept
IdGiven == Has(call.args, "feedback_id") /\ call.args.feedback_id # 0

\* the api operations a finished invocation has called
Invocations ==
    CASE call.name \in {"feedback_list", "api_status"} -> 1
      [] call.name \in {"feedback_resolve", "feedback_get"} ->
            IF IdGiven THEN 1 ELSE 0
      [] call.name = "feedback_comment" ->
            IF IdGiven /\ Has(call.args, "comment") /\ Len(call.args.comment) > 0
            THEN 1 ELSE 0
      [] call.name = "feedback_stats" ->
            IF GoodProjectFetch(settled[1]) THEN 2 ELSE 1
      [] OTHER -> 0

\* the failure of the invocation reached the caller
Surfaced ==
    \/ Flagged
    \/ /\ call.name = "api_status"
       /\ Data.status # <<99, 111, 110, 110, 101, 99, 116, 101, 100>>

\* C15: every operation of the api sends one request, no more: an invocation
\* that ended has sent as many requests as it called operations, each request
\* settles once, and a request that failed is the last one sent, its failure
\* reported to the caller at once.
C15_OneRequestPerOperation ==
    /\ Len(sent) = Len(settled) + (IF pc = "await" THEN 1 ELSE 0)
    /\ pc = "done" => Len(sent) = Invocations
    /\ \A k \in 1..Len(settled) :
            ~GoodFetch(settled[k]) =>
                /\ k = Len(sent)
                /\ pc = "done"
                /\ Surfaced

\* feedback_resolve whose one request met a network failure
C15_Witness ==
    /\ ToolDone("feedback_resolve")
    /\ Len(sent) = 1
    /\ sent[1].method = "PUT"
    /\ settled[1].kind = "rejected"
    /\ Flagged

---------------------------------------------------------------------------
(* C16 *)

ReadTools == {"feedback_list", "feedback_get", "feedback_stats", "api_status"}

\* the methods of the requests sent so far
MethodsSent(requests) == {requests[k].method : k \in 1..Len(requests)}

\* C16: the four reading tools send GET requests only and no step of theirs
\* changes the upstream collection; feedback_comment sends POST and
\* feedback_resolve PUT, and the collection changes only when such a request
\* settles.
C16_OnlyWritesMutate ==
    [][/\ call'.name \in ReadTools =>
            (upstream' = upstream /\ MethodsSent(sent') \subseteq {"GET"})
       /\ call'.name = "feedback_comment" => MethodsSent(sent') \subseteq {"POST"}
       /\ call'.name = "feedback_resolve" => MethodsSent(sent') \subseteq {"PUT"}
       /\ upstream' # upstream =>
            /\ call.name \in {"feedback_comment", "feedback_resolve"}
            /\ pending.method \in {"POST", "PUT"}]_vars

\* feedback_list answered from a collection an earlier write has changed
C16_Witness ==
    /\ ListOk
    /\ MethodsSent(sent) = {"GET"}
    /\ Len(upstream) = 3
    /\ upstream # Project(3)
    /\ Data.data_stats.original_count = 3

---------------------------------------------------------------------------
(* C17 *)

\* "Claude AI Assistant", "claude@anthropic.com"
AssistantName == <<67, 108, 97, 117, 100, 101, 32, 65, 73, 32, 65, 115, 115,
    105, 115, 116, 97, 110, 116>>
AssistantEmail == <<99, 108, 97, 117, 100, 101, 64, 97, 110, 116, 104, 114,
    111, 112, 105, 99, 46, 99, 111, 109>>

\* feedback_comment has sent its request
CommentSent == call.name = "feedback_comment" /\ Len(sent) = 1

\* C17: the payload feedback_comment sends carries the resolve flag as given,
\* false when the argument is omitted, the comment text, and as reporter the
\* name and email given, the assistant's name and email standing in for a
\* value that is omitted.
C17_CommentPayload ==
    CommentSent =>
        LET payload == sent[1].body
            args == call.args
        IN  /\ sent[1].method = "POST"
            /\ payload.body = args.comment
            /\ payload.resolve = (IF Has(args, "resolve") THEN args.resolve ELSE FALSE)
            /\ payload.reporter.name =
                    (IF Has(args, "reporter_name") /\ Len(args.reporter_name) > 0
                     THEN args.reporter_name ELSE AssistantName)
            /\ payload.reporter.email =
                    (IF Has(args, "reporter_email") /\ Len(args.reporter_email) > 0
                     THEN args.reporter_email ELSE AssistantEmail)

\* a comment that also resolves, sent without a reporter, accepted by the service
C17_Witness ==
    /\ CommentSent
    /\ ToolDone("feedback_comment")
    /\ ~Flagged
    /\ DOMAIN call.args = {"feedback_id", "comment", "resolve"}
    /\ call.args.resolve
    /\ sent[1].body.resolve
    /\ sent[1].body.reporter.name = AssistantName
    /\ sent[1].body.reporter.email = AssistantEmail

---------------------------------------------------------------------------
(* C18 *)

SessionAllowList ==
    {"page", "device", "system", "browser", "selector", "userAgent",
     "screenWidth", "screenHeight", "viewportWidth", "viewportHeight",
     "widgetVersion", "devDataOverview", "devicePixelRatio"}

SelectorAllowList == {"path", "pathWithClass", "offset", "scrollableSelector"}

\* out is record src with its session data cut down to the allow-list
IsOptimizedCopy(out, src) ==
    /\ DOMAIN out = DOMAIN src
    /\ \A f \in DOMAIN src \ {"session_data"} : out[f] = src[f]
    /\ DOMAIN out.session_data = SessionAllowList
    /\ \A f \in SessionAllowList \ {"selector"} :
            out.session_data[f] = src.session_data[f]
    /\ DOMAIN out.session_data.selector = SelectorAllowList
    /\ \A f \in SelectorAllowList :
            out.session_data.selector[f] = src.session_data.selector[f]

\* getProjectFeedback succeeded with summary mode disabled
FullModeOk ==
    /\ QueryOk
    /\ Has(call.options, "summary")
    /\ call.options.summary = FALSE

\* C18: with summary mode disabled every returned record is its source record
\* in every field but session_data, and its session_data holds the allow-listed
\* fields, with the source's values, and no other field.
C18_OptimizedProjection ==
    FullModeOk =>
        \A k \in 1..Len(reply.value.feedback) :
            \E i \in 1..Len(call.feedback) :
                /\ call.feedback[i].id = reply.value.feedback[k].id
                /\ IsOptimizedCopy(reply.value.feedback[k], call.feedback[i])

\* records whose session data came with a field off the list
C18_Witness ==
    /\ FullModeOk
    /\ Len(reply.value.feedback) = 3
    /\ \A i \in 1..3 : "cookies" \in DOMAIN call.feedback[i].session_data
    /\ \A k \in 1..3 : "cookies" \notin DOMAIN reply.value.feedback[k].session_data

---------------------------------------------------------------------------
(* C19 *)

\* out is the summary of record src, the text apart
IsSummaryOf(out, src) ==
    /\ DOMAIN out = SummaryFields
    /\ out.id = src.id
    /\ out.type = src.type
    /\ out.title = src.title
    /\ out.reporter_name = src.reporter.name
    /\ out.page = src.session_data.page
    /\ out.created_at = src.created_at
    /\ out.resolved_at = src.resolved_at
    /\ out.comment_count = Len(src.comments)
    /\ out.has_attachments = (Len(src.attachments) > 0)

\* out is the projection of src in the mode the options ask for
IsProjectionOf(out, src, options) ==
    IF Has(options, "summary") /\ options.summary = FALSE
    THEN IsOptimizedCopy(out, src)
    ELSE IsSummaryOf(out, src)

\* the slice of the filtered records from the offset on, limit records long
\* when a limit above 0 is given
ExpectedPage(filtered, options) ==
    LET o == IF Has(options, "offset") THEN options.offset ELSE 0
        l == IF Has(options, "limit") THEN options.limit ELSE 0
        last == IF l > 0 /\ o + l < Len(filtered) THEN o + l ELSE Len(filtered)
    IN  SubSeq(filtered, o + 1, last)

\* C19: the feedback sequence getProjectFeedback returns has returned_count
\* elements, each the projection, in the mode asked for, of a filtered record;
\* with a limit that is absent or not negative its i-th element is the
\* projection of the i-th record of the filtered-then-paginated slice.
C19_ProjectionOnPage ==
    QueryOk =>
        LET out == reply.value.feedback
            filtered == ExpectedFiltered(call.feedback, call.options)
            page == ExpectedPage(filtered, call.options)
        IN  /\ Len(out) = reply.value.data_optimization.returned_count
            /\ \A k \in 1..Len(out) : \E i \in 1..Len(filtered) :
                    IsProjectionOf(out[k], filtered[i], call.options)
            /\ (Has(call.options, "limit") => call.options.limit >= 0) =>
                    /\ Len(out) = Len(page)
                    /\ \A i \in 1..Len(page) :
                            IsProjectionOf(out[i], page[i], call.options)

\* one record of the large project, the third, in full mode
C19_Witness ==
    /\ QueryOk
    /\ Len(call.feedback) = BigCount
    /\ call.options = [limit |-> 1, offset |-> 2, summary |-> FALSE]
    /\ Len(reply.value.feedback) = 1
    /\ reply.value.feedback[1].id = 3

---------------------------------------------------------------------------
(* C20 *)

\* the filter carries timestamp bounds and nothing else
BoundsOnly ==
    /\ PureIs("filterFeedback")
    /\ DOMAIN call.filter \subseteq {"created_after", "created_before"}

\* C20: a record passes created_after iff its created_at >= the bound and
\* created_before iff its created_at <= the bound, under string comparison: a
\* filter of timestamp bounds keeps exactly the records inside the bounds,
\* those equal to a bound included.
C20_TimestampBoundsInclusive ==
    BoundsOnly =>
        reply.value = SelectSeq(call.feedback,
            LAMBDA r :
                /\ Has(call.filter, "created_after")
                        => LexLeq(call.filter.created_after, r.created_at)
                /\ Has(call.filter, "created_before")
                        => LexLeq(r.created_at, call.filter.created_before))

---------------------------------------------------------------------------
(* C21 *)

\* the filter carries string criteria (page, reporter, type) and nothing else
StringCriteriaOnly ==
    /\ PureIs("filterFeedback")
    /\ DOMAIN call.filter \subseteq {"page", "reporter", "type"}

\* C21: a record passes the page criterion iff its page contains the criterion
\* as a substring, case kept; the reporter criterion iff its reporter name,
\* lower-cased, contains the criterion lower-cased; the type criterion iff its
\* type is the criterion: a filter of such criteria keeps exactly the records
\* that pass each of them.
C21_StringPredicates ==
    StringCriteriaOnly =>
        reply.value = SelectSeq(call.feedback,
            LAMBDA r :
                /\ Has(call.filter, "page")
                        => Contains(r.session_data.page, call.filter.page)
                /\ Has(call.filter, "reporter")
                        => Contains(Lowered(r.reporter.name), Lowered(call.filter.reporter))
                /\ Has(call.filter, "type") => r.type = call.filter.type)

\* the page "/a" asked of a record on "/A" and a record on "/ab": the first is
\* dropped, the second kept
C21_Witness ==
    /\ StringCriteriaOnly
    /\ DOMAIN call.filter = {"page"}
    /\ call.filter.page = <<47, 97>>
    /\ Len(call.feedback) = 2
    /\ call.feedback[1].session_data.page = <<47, 65>>
    /\ call.feedback[2].session_data.page = <<47, 97, 98>>
    /\ Len(reply.value) = 1
    /\ reply.value[1] = call.feedback[2]

---------------------------------------------------------------------------
(* C22 *)

\* the environment variable is set to a value other than ""
IsSet(env, name) == name \in DOMAIN env /\ Len(env[name]) > 0

---------------------------------------------------------------------------
(* C26 *)

\* C26: in every successful getProjectFeedback result the counts are ordered,
\* 0 <= returned_count <= filtered_count <= original_count, total_count is
\* filtered_count, and returned_count is the length of the returned feedback
\* sequence, whatever the filter, limit, offset and summary mode.
C26_CountOrdering ==
    QueryOk =>
        LET counts == reply.value.data_optimization
        IN  /\ 0 <= counts.returned_count
            /\ counts.returned_count <= counts.filtered_count
            /\ counts.filtered_count <= counts.original_count
            /\ reply.value.total_count = counts.filtered_count
            /\ counts.returned_count = Len(reply.value.feedback)

\* a filter that drops some records and a limit that cuts the rest short: the
\* three counts differ
C26_Witness ==
    /\ QueryOk
    /\ Has(call.options, "filter") /\ Has(call.options, "limit")
    /\ 0 < reply.value.data_optimization.returned_count
    /\ reply.value.data_optimization.returned_count
            < reply.value.data_optimization.filtered_count
    /\ reply.value.data_optimization.filtered_count
            < reply.value.data_optimization.original_count

---------------------------------------------------------------------------
(* C29 *)

\* the request got a 2xx response whose body parsed
RequestSucceeds ==
    /\ call.fetched.kind = "response"
    /\ call.fetched.ok
    /\ ~call.fetched.json.threw

\* C29: makeRequest raises nothing but the typed failure: whatever goes wrong
\* while the request is performed, a 2xx body that is not JSON included,
\* surfaces as FeedbucketApiError; the failure raised for a non-2xx response
\* keeps its HTTP status, and every other cause is reported with status 0.
C29_OnlyTypedFailure ==
    PureIs("makeRequest") =>
        /\ reply.threw <=> ~RequestSucceeds
        /\ reply.threw =>
            /\ reply.error.name = "FeedbucketApiError"
            /\ reply.error.status =
                    (IF call.fetched.kind = "response" /\ ~call.fetched.ok
                     THEN call.fetched.status ELSE 0)
            /\ (call.fetched.kind = "response" /\ ~call.fetched.ok)
                    => reply.error.status # 0

\* a 200 response whose body is not JSON: the typed failure, status 0
C29_Witness ==
    /\ PureIs("makeRequest")
    /\ call.fetched.kind = "response"
    /\ call.fetched.ok
    /\ call.fetched.json.threw
    /\ reply.threw
    /\ reply.error.name = "FeedbucketApiError"
    /\ reply.error.status = 0

---------------------------------------------------------------------------
(* C30 *)

\* C30: getStatus never raises: whatever its one project fetch settles to, the
\* api_status tool returns an unflagged result that holds a status, which is
\* "connected" exactly when the fetch succeeded and starts with "error:"
\* otherwise.
C30_StatusNeverRaises ==
    ToolDone("api_status") =>
        /\ ~Flagged
        /\ Len(sent) = 1 /\ Len(settled) = 1
        /\ DOMAIN Data = {"status", "timestamp"}
        /\ (Data.status = <<99, 111, 110, 110, 101, 99, 116, 101, 100>>)
                <=> GoodFetch(settled[1])
        /\ ~GoodFetch(settled[1]) =>
                /\ Len(Data.status) >= 6
                /\ SubSeq(Data.status, 1, 6) = <<101, 114, 114, 111, 114, 58>>

\* the remote service answers api_status with a non-2xx response: the result
\* is not flagged and its status starts with "error:"
C30_Witness ==
    /\ ToolDone("api_status")
    /\ Len(settled) = 1
    /\ settled[1].kind = "response"
    /\ ~settled[1].ok
    /\ ~Flagged
    /\ SubSeq(Data.status, 1, 6) = <<101, 114, 114, 111, 114, 58>>

---------------------------------------------------------------------------
(* C25 *)

\* the call names no tool of the server, or leaves out a parameter its tool
\* requires
LacksRequired ==
    \/ call.name \notin ToolNames
    \/ /\ call.name \in {"feedback_comment", "feedback_resolve", "feedback_get"}
       /\ ~Has(call.args, "feedback_id")
    \/ /\ call.name = "feedback_comment"
       /\ ~Has(call.args, "comment")

\* C25: a feedback_comment, feedback_resolve or feedback_get call that lacks a
\* required parameter, and a call that names an unknown tool, gets an
\* error-flagged result and sends nothing to the remote service; a call that
\* supplies the required parameters is dispatched to the remote service.
C25_RequiredParameters ==
    (/\ pc = "done"
     /\ call.name \notin {"feedback_list", "feedback_stats", "api_status"})
    =>
        /\ LacksRequired => (Flagged /\ sent = <<>>)
        /\ ~LacksRequired => Len(sent) >= 1

---------------------------------------------------------------------------
(* C24 *)

\* C24: while every request sent upstream is settled in the end, every tool
\* invocation yields a result, and exactly one: there is a result exactly
\* while the invocation is done, and it is handed back as it is.  The handler
\* has no timeout: a suspended invocation goes on only when the request it
\* waits for settles, so without that it yields nothing.
C24_EveryInvocationYieldsOneResult ==
    /\ (pc # "idle") ~> (pc = "done")
    /\ [](pc = "done" <=> IsToolResult(reply))
    /\ [](pc # "done" => reply = NoReply)
    /\ [][pc = "done" => pc' = "idle"]_vars
    /\ [][pc = "await" =>
            /\ Len(settled') = Len(settled) + 1
            /\ pc' \in {"await", "done"}]_vars

\* feedback_stats has had its two fetches settled and holds its result
C24_Witness ==
    /\ ToolDone("feedback_stats")
    /\ Len(sent) = 2
    /\ Len(settled) = 2
    /\ IsToolResult(reply)

---------------------------------------------------------------------------
(* C23 *)

\* the invocation run with nothing else going on, against the given responses:
\* the requests it sends and the result it returns
RECURSIVE ResumeAlone(_, _, _, _)
ResumeAlone(name, stop, responses, requests) ==
    IF stop.kind = "await"
    THEN IF responses = <<>>
         THEN [sent |-> Append(requests, stop.request), reply |-> NoReply]
         ELSE ResumeAlone(name, ToolResume(name, stop.held, Head(responses)),
                          Tail(responses), Append(requests, stop.request))
    ELSE [sent |-> requests,
          reply |-> IF stop.kind = "return" THEN stop.value
                    ELSE CatchBlock(stop.error)]

RunAlone(c, responses) ==
    ResumeAlone(c.name, ToolStart(c.name, c.args), responses, <<>>)

\* the step leaves everything of slot o as it was
Untouched(o) ==
    /\ pc'[o] = pc[o]
    /\ call'[o] = call[o]
    /\ pending'[o] = pending[o]
    /\ held'[o] = held[o]
    /\ sent'[o] = sent[o]
    /\ settled'[o] = settled[o]
    /\ reply'[o] = reply[o]

---------------------------------------------------------------------------
(* C27 *)

\* C27: every successful feedback_stats result is consistent, resolved plus
\* unresolved and the three counts by type both add up to total_feedback, also
\* when the collection changes between the two fetches of feedback_stats.
C27_StatsConsistent ==
    \A s \in Slots :
        (/\ pc[s] = "done"
         /\ call[s].name = "feedback_stats"
         /\ ~Has(reply[s], "isError"))
        =>
            LET stats == reply[s].content[1].text
            IN  /\ stats.resolved + stats.unresolved = stats.total_feedback
                /\ stats.by_type.screenshot + stats.by_type.video
                        + stats.by_type.text = stats.total_feedback

---------------------------------------------------------------------------
(* C28 *)

\* the ids of the records that pass the client's filter, in collection order
FilteredIds ==
    LET filtered == SelectSeq(upstream,
                        LAMBDA r : /\ ResolvedPass(r, client.args)
                                   /\ OtherArgsPass(r, client.args))
    IN  [k \in 1..Len(filtered) |-> filtered[k].id]

\* C28: against an unchanging collection, with a fixed filter and a limit in
\* 1..50, the client that starts at offset 0, moves on by the number of items
\* shown and stops when has_more is false comes to an end after finitely many
\* calls, having received every filtered record exactly once, in filtered
\* order; has_more is true exactly when a filtered record lies beyond the page
\* shown.
C28_PagingTraversal ==
    /\ <>(client.phase # "paging")
    /\ [](/\ client.calls <= Len(FilteredIds) + 1
           /\ client.received = SubSeq(FilteredIds, 1, Len(client.received))
           /\ client.offset = Len(client.received)
           /\ client.phase = "stopped" => client.received = FilteredIds)
    /\ [](ListOk =>
            (Data.pagination.has_more
                <=> client.offset + Data.pagination.showing < Len(FilteredIds)))

\* the client is through the 60 records of the large project, limit 7, no
\* filter: nine calls
C28_Witness ==
    /\ client.phase = "stopped"
    /\ client.args = [limit |-> 7]
    /\ Len(client.received) = BigCount
    /\ client.calls > 8


=============================================================================
